---- MODULE Spec2Model ----
(***************************************************************************)
(* The transaction / balance engine of gastos-api: the Express handlers of *)
(* src/api/routes/expenses.ts, src/api/routes/accounts.ts,                 *)
(* src/api/routes/auth.ts and the categories router over the Prisma store. *)
(*                                                                         *)
(* Every handler is a process that takes one step per awaited call: a      *)
(* request arrives and runs up to the answer of its first awaited call in  *)
(* one step (nothing before that call touches the store), every later      *)
(* awaited read or write is a step of its own, and the code after the last *)
(* awaited call, response included, belongs to that call's step.           *)
(* prisma.$transaction([...]) is one atomic step that applies every write  *)
(* or none.  In Spec a client sends one request at a time and waits for    *)
(* its answer; in SpecConc, SpecBalances, SpecAuth and SpecConcFair two    *)
(* requests are in flight and their steps interleave.  Amounts and         *)
(* balances are integers (minor units).                                    *)
(***************************************************************************)
EXTENDS Integers, Sequences, FiniteSets, TLC

\* ------------------------------------------------------------------ bounds
MaxAccounts == 3        \* account ids ever allocated
MaxExpenses == 4        \* expense ids ever allocated
MaxAmount == 2          \* largest amount a request carries
MaxInitialBalance == 1  \* largest initial balance of POST /accounts
MaxDate == 1            \* transaction dates a request carries
MaxCommits == 4         \* committed writes after which no new request starts
TicksPerDay == 2        \* instants told apart within one day
MaxPeriodDate == 4      \* latest instant of a transaction in SpecPeriod
MaxPeriodRows == 3      \* expense rows of a ledger in SpecPeriod

Users == {1, 2}
Slots == {"r1", "r2"}
SeqSlot == "r1"

\* Request inputs.  "" is an omitted type, 0 an omitted id or date, <<>> an
\* omitted amount.
TypeInputs == {"", "EXPENSE", "INCOME", "income", "Expense", "TRANSFER_IN", "TRANSFER_OUT"}
AmountInputs == 1..MaxAmount
InitialBalanceInputs == {0, MaxInitialBalance}
DateInputs == 1..MaxDate
TransferAmountInputs == 0..MaxAmount
ProbeCategoryNames == {"Outros"}

\* String.prototype.toUpperCase, on the spellings of the four transaction
\* types in upper case, lower case and capitalised: the strings it is
\* applied to here.
ToUpperCase(t) ==
    CASE t \in {"INCOME", "income", "Income"} -> "INCOME"
      [] t \in {"EXPENSE", "expense", "Expense"} -> "EXPENSE"
      [] t \in {"TRANSFER_IN", "transfer_in", "Transfer_in"} -> "TRANSFER_IN"
      [] t \in {"TRANSFER_OUT", "transfer_out", "Transfer_out"} -> "TRANSFER_OUT"

\* The categories POST /auth/register creates for a new user, in order.
DefaultCategories ==
    << "Alimentacao", "Transporte", "Moradia", "Lazer", "Saude", "Educacao",
       "Salario", "Outros", "Transferencia" >>
TransferCategoryName == "Transferencia"

VARIABLES
    users,       \* registered user ids
    userTable,   \* User table: id -> [password (hashed), isVerified]
    accounts,    \* Account table: id -> [userId, name, type, initialBalance, currentBalance]
    categories,  \* Category table: id -> [userId, name]
    expenses,    \* Expense table: id -> [userId, accountId, categoryId, type, amount, transactionDate]
    receipts,    \* keys <<userId, expenseId>> held by the receipt object store
    nextId,      \* next id the store generates, per table
    commits,     \* how many writes (single writes and batches) the stores committed
    reqs         \* per slot: the handler running there, its locals and its response

vars == <<users, userTable, accounts, categories, expenses, receipts, nextId, commits, reqs>>

\* ------------------------------------------------------------------ store
Store == [ok |-> TRUE, accounts |-> accounts, categories |-> categories,
          expenses |-> expenses, nextId |-> nextId]

Lowest(ids) == CHOOSE a \in ids : \A b \in ids : a <= b

\* prisma.account.findFirst({ where: { id, userId } }); an omitted id (0,
\* undefined) puts no condition on the id, and the first row of the user
\* is returned.
FindFirstAccount(id, userId) ==
    LET rows == {a \in DOMAIN accounts :
                    accounts[a].userId = userId /\ (id # 0 => a = id)}
    IN IF rows = {} THEN <<>> ELSE <<accounts[Lowest(rows)]>>

\* prisma.category.findFirst({ where: { id, userId } }), likewise.
FindFirstCategory(id, userId) ==
    LET rows == {c \in DOMAIN categories :
                    categories[c].userId = userId /\ (id # 0 => c = id)}
    IN IF rows = {} THEN <<>> ELSE <<categories[Lowest(rows)]>>

\* prisma.expense.findUnique({ where: { id } })
FindUniqueExpense(id) ==
    IF id \in DOMAIN expenses THEN <<expenses[id]>> ELSE <<>>

\* prisma.user.findUnique({ where: { email } }); the address is the number
\* of the user.
FindUniqueUser(email) ==
    IF email \in DOMAIN userTable THEN <<userTable[email]>> ELSE <<>>

\* One write of a batch.  kind: "expense.create" | "expense.update" |
\* "expense.delete" | "account.update"; an account.update is relative
\* (mode "increment", by n) or absolute (mode "set", to n).
Op(kind, id, mode, n, data) ==
    [kind |-> kind, id |-> id, mode |-> mode, n |-> n, data |-> data]
NoData == [userId |-> 0, accountId |-> 0, categoryId |-> 0, type |-> "",
           amount |-> 0, transactionDate |-> 0]

Extend(f, k, v) == [x \in DOMAIN f \cup {k} |-> IF x = k THEN v ELSE f[x]]
Remove(f, k) == [x \in DOMAIN f \ {k} |-> f[x]]

\* The foreign keys of an expense row resolve.
ReferencesExist(st, row) ==
    /\ row.accountId \in DOMAIN st.accounts
    /\ row.categoryId \in DOMAIN st.categories

\* The store executes one write; a write on a missing row, or one that breaks
\* a foreign key, throws (ok = FALSE).
ApplyOp(st, op) ==
    CASE op.kind = "expense.create" ->
            IF ReferencesExist(st, op.data)
            THEN [st EXCEPT !.expenses = Extend(st.expenses, st.nextId.expense, op.data),
                            !.nextId.expense = st.nextId.expense + 1]
            ELSE [st EXCEPT !.ok = FALSE]
      [] op.kind = "account.update" ->
            IF op.id \in DOMAIN st.accounts
            THEN [st EXCEPT !.accounts[op.id].currentBalance =
                        IF op.mode = "increment" THEN @ + op.n ELSE op.n]
            ELSE [st EXCEPT !.ok = FALSE]
      [] op.kind = "expense.update" ->
            IF op.id \in DOMAIN st.expenses /\ ReferencesExist(st, op.data)
            THEN [st EXCEPT !.expenses[op.id] =
                        [@ EXCEPT !.amount = op.data.amount,
                                  !.transactionDate = op.data.transactionDate,
                                  !.categoryId = op.data.categoryId,
                                  !.accountId = op.data.accountId]]
            ELSE [st EXCEPT !.ok = FALSE]
      [] op.kind = "expense.delete" ->
            IF op.id \in DOMAIN st.expenses
            THEN [st EXCEPT !.expenses = Remove(st.expenses, op.id)]
            ELSE [st EXCEPT !.ok = FALSE]

\* The writes of a batch in order; write number failAt is aborted by the
\* store (0: none is).  Stops at the first failure.
RECURSIVE ApplyOps(_, _, _, _)
ApplyOps(st, ops, k, failAt) ==
    IF k > Len(ops) \/ ~st.ok THEN st
    ELSE IF k = failAt THEN [st EXCEPT !.ok = FALSE]
    ELSE ApplyOps(ApplyOp(st, ops[k]), ops, k + 1, failAt)

\* A batch that keeps the writes done before the failure.
TransactionNotAtomic(st, ops, failAt) == ApplyOps(st, ops, 1, failAt)

\* prisma.$transaction([...]): all the writes, or none when one fails.
Transaction(st, ops, failAt) ==
    LET r == ApplyOps(st, ops, 1, failAt)
    IN IF r.ok THEN r ELSE [st EXCEPT !.ok = FALSE]

\* ------------------------------------------------------------------ requests
\* A request: its parameters, the locals its reads filled in, and its
\* response.  pc is "idle" (no request yet), "done" (answered) or the awaited
\* call the handler is at; wrote records that the handler has already
\* changed a store outside its write batch (a category created, a receipt
\* released).
NoRow == <<>>
Idle == [op |-> "none", pc |-> "idle", status |-> 0, error |-> "", userId |-> 0,
         id |-> 0, name |-> "", type |-> "", amount |-> <<>>, date |-> 0,
         categoryId |-> 0, accountId |-> 0, destinationAccountId |-> 0,
         old |-> NoRow, account |-> NoRow, destination |-> NoRow,
         transferCategory |-> 0, wrote |-> FALSE, password |-> "", token |-> <<>>,
         accountIds |-> {}, startDate |-> 0, endDate |-> 0, balances |-> <<>>,
         futureTransactions |-> {}, results |-> <<>>]

Request(op, u) == [Idle EXCEPT !.op = op, !.userId = u]
InFlight(s) == reqs[s].pc \notin {"idle", "done"}
At(s, op, pc) == reqs[s].op = op /\ reqs[s].pc = pc

\* Slot s may take a new request.
Free(s) == ~InFlight(s) /\ commits < MaxCommits

\* res.json(...): the handler returns and its locals are gone; the request
\* stays on record with the 200.
Respond(r) ==
    [r EXCEPT !.pc = "done", !.status = 200, !.old = NoRow, !.account = NoRow,
              !.destination = NoRow, !.transferCategory = 0, !.wrote = FALSE,
              !.balances = <<>>, !.futureTransactions = {}]
\* res.status(status).json({ error }): an error response.
Reject(r, status, error) ==
    [Request(r.op, r.userId) EXCEPT !.pc = "done", !.status = status,
                                    !.error = error, !.id = r.id]

Init ==
    /\ users = {}
    /\ userTable = <<>>
    /\ accounts = <<>>
    /\ categories = <<>>
    /\ expenses = <<>>
    /\ receipts = {}
    /\ nextId = [account |-> 1, category |-> 1, expense |-> 1]
    /\ commits = 0
    /\ reqs = [s \in Slots |-> Idle]

\* Ids requests name: every account, the probe categories, every expense id.
AccountIdInputs == DOMAIN accounts
CategoryIdInputs == {c \in DOMAIN categories : categories[c].name \in ProbeCategoryNames}
TransferCategoryIds == {c \in DOMAIN categories : categories[c].name = TransferCategoryName}
ExpenseIdInputs == 1..MaxExpenses

\* Expense and account ids the in-flight requests will still ask the store
\* for.
Needs(r) ==
    IF r.pc \in {"idle", "done"} THEN 0
    ELSE CASE r.op = "postExpense" -> 1
           [] r.op = "transfer" -> 2
           [] OTHER -> 0
AccountNeeds(r) ==
    IF r.pc \notin {"idle", "done"} /\ r.op = "register" THEN 1 ELSE 0
RECURSIVE SumNeeds(_)
SumNeeds(S) ==
    IF S = {} THEN 0
    ELSE LET s == CHOOSE x \in S : TRUE IN Needs(reqs[s]) + SumNeeds(S \ {s})
RECURSIVE SumAccountNeeds(_)
SumAccountNeeds(S) ==
    IF S = {} THEN 0
    ELSE LET s == CHOOSE x \in S : TRUE
         IN AccountNeeds(reqs[s]) + SumAccountNeeds(S \ {s})
CanAllocate(n) == nextId.expense + SumNeeds(Slots) + n <= MaxExpenses + 1
CanAllocateAccount == nextId.account + SumAccountNeeds(Slots) <= MaxAccounts

\* Slot s goes on as r (at its next awaited call, or answered) without
\* writing to the stores.
Answer(s, r) ==
    /\ reqs' = [reqs EXCEPT ![s] = r]
    /\ UNCHANGED <<users, userTable, accounts, categories, expenses, receipts, nextId, commits>>

\* The write batch of request r runs on store st: committed with a 200, or
\* rolled back (the catch block's 500).
RunBatch(s, r, st, ops, error) ==
    \E failAt \in 0..Len(ops) :
        LET out == Transaction(st, ops, failAt)
        IN /\ accounts' = out.accounts
           /\ expenses' = out.expenses
           /\ categories' = out.categories
           /\ nextId' = out.nextId
           /\ commits' = IF out.ok THEN commits + 1 ELSE commits
           /\ reqs' = [reqs EXCEPT ![s] =
                         IF out.ok THEN Respond(r) ELSE Reject(r, 500, error)]
           /\ UNCHANGED <<users, userTable>>

\* ------------------------------------------------- POST /auth/register
\* accounts: { create: { name: 'Carteira' } }: the other columns take their
\* defaults.
Carteira(u) == [userId |-> u, name |-> "Carteira", type |-> "checking",
                initialBalance |-> 0, currentBalance |-> 0]

RECURSIVE CreateCategories(_, _, _, _)
CreateCategories(cats, id, u, names) ==
    IF names = <<>> THEN cats
    ELSE CreateCategories(Extend(cats, id, [userId |-> u, name |-> Head(names)]),
                          id + 1, u, Tail(names))

\* bcrypt.hash(password, 10) and bcrypt.compare(password, hash).
Hash(password) == <<"bcrypt", password>>
Compare(password, hash) == hash = Hash(password)

\* The password user u registers with.
PasswordOf(u) == IF u = 1 THEN "senha1" ELSE "senha2"

\* prisma.user.create({ data: { ..., password: hashedPassword, isVerified: false } })
NewUser(u) == [password |-> Hash(PasswordOf(u)), isVerified |-> FALSE]

\* The handler up to bcrypt.hash: the look-up of the address.  The number u
\* stands for the e-mail address and for the id of the user registered
\* with it.
RegisterRead(u) ==
    LET existingUser == FindUniqueUser(u)
        r == [Request("register", u) EXCEPT !.id = u]
    IN IF existingUser # NoRow THEN Reject(r, 400, "E-mail ja cadastrado")
       ELSE [r EXCEPT !.pc = "hash"]

RegisterStart(s, u) ==
    /\ Free(s)
    /\ CanAllocateAccount
    /\ Answer(s, RegisterRead(u))

\* await bcrypt.hash(password, 10)
RegisterHash(s) ==
    /\ At(s, "register", "hash")
    /\ Answer(s, [reqs[s] EXCEPT !.pc = "create"])

\* prisma.user.create with the nested account and categories: one write,
\* which the unique e-mail refuses when the address was registered meanwhile
\* (the catch block's 500).
RegisterCreate(s) ==
    /\ At(s, "register", "create")
    /\ LET r == reqs[s]
           u == r.id
       IN IF FindUniqueUser(u) # NoRow
          THEN Answer(s, Reject(r, 500, "Falha ao registrar usuario"))
          ELSE /\ users' = users \cup {u}
               /\ userTable' = Extend(userTable, u, NewUser(u))
               /\ accounts' = Extend(accounts, nextId.account, Carteira(u))
               /\ categories' = CreateCategories(categories, nextId.category, u,
                                                 DefaultCategories)
               /\ nextId' = [nextId EXCEPT !.account = @ + 1,
                                           !.category = @ + Len(DefaultCategories)]
               /\ commits' = commits + 1
               /\ reqs' = [reqs EXCEPT ![s] = Respond(r)]
               /\ UNCHANGED <<expenses, receipts>>

\* ------------------------------------------------- GET /auth/verify
\* The token is the one registration mailed to the address (its number), 0
\* when the request carries none, or InvalidToken: a string jwt.verify
\* throws on (malformed, expired or not signed by the service), which the
\* catch block answers.
InvalidToken == 0 - 1

VerifyEmailRead(token) ==
    LET r == [Request("verify", 0) EXCEPT !.id = token]
        user == FindUniqueUser(token)
    IN IF token = 0 THEN Reject(r, 400, "Token invalido")
       ELSE IF token = InvalidToken THEN Reject(r, 400, "Token invalido ou expirado")
       ELSE IF user = NoRow THEN Reject(r, 400, "Usuario nao encontrado")
       ELSE IF user[1].isVerified THEN Respond(r)
       ELSE [r EXCEPT !.pc = "update"]

VerifyEmailStart(s, token) ==
    /\ Free(s)
    /\ Answer(s, VerifyEmailRead(token))

\* prisma.user.update({ where: { email }, data: { isVerified: true } })
VerifyEmailUpdate(s) ==
    /\ At(s, "verify", "update")
    /\ userTable' = [userTable EXCEPT ![reqs[s].id].isVerified = TRUE]
    /\ commits' = commits + 1
    /\ reqs' = [reqs EXCEPT ![s] = Respond(reqs[s])]
    /\ UNCHANGED <<users, accounts, categories, expenses, receipts, nextId>>

\* ------------------------------------------------- POST /auth/login
PasswordInputs == {"senha1", "senha2", "errada"}

\* jwt.sign({ id: user.id, email: user.email }, JWT_SECRET, ...)
Sign(id) == <<id>>

\* The handler up to bcrypt.compare: the look-up of the user, whose row the
\* handler keeps (r.old), and the checks on it.
LoginRead(email, password) ==
    LET r == [Request("login", 0) EXCEPT !.id = email, !.password = password]
        user == FindUniqueUser(email)
    IN IF user = NoRow THEN Reject(r, 400, "Credenciais invalidas")
       ELSE IF ~user[1].isVerified
            THEN Reject(r, 403,
                   "E-mail nao verificado. Por favor, verifique sua caixa de entrada.")
       ELSE [r EXCEPT !.pc = "compare", !.old = user]

\* The answer once bcrypt.compare has resolved, from the row read before.
LoginResponse(r) ==
    IF ~Compare(r.password, r.old[1].password)
    THEN Reject(r, 400, "Credenciais invalidas")
    ELSE [Respond(r) EXCEPT !.token = Sign(r.id)]

LoginStart(s, email, password) ==
    /\ Free(s)
    /\ Answer(s, LoginRead(email, password))

\* await bcrypt.compare(password, user.password), jwt.sign and the response.
LoginCompare(s) ==
    /\ At(s, "login", "compare")
    /\ Answer(s, LoginResponse(reqs[s]))

\* ------------------------------------------------- POST /accounts
VALID_TYPES == {"checking", "savings", "investment", "cash", "credit_card"}
AccountNameInputs == {"Renomeada"}
AccountTypeInputs == {"", "savings", "corrente"}

\* The row created with its current balance left at 0 whatever the initial
\* balance.
NewAccountZeroBalance(u, initialBalance, type) ==
    [userId |-> u, name |-> "Conta",
     type |-> IF type = "" THEN "checking" ELSE type,
     initialBalance |-> initialBalance, currentBalance |-> 0]

\* data: { name, userId, initialBalance: initialBalance || 0,
\* currentBalance: initialBalance || 0, type: type || 'checking', ... }
NewAccount(u, initialBalance, type) ==
    [userId |-> u, name |-> "Conta",
     type |-> IF type = "" THEN "checking" ELSE type,
     initialBalance |-> initialBalance, currentBalance |-> initialBalance]

\* The handler: the check of the type, then its one write.
CreateAccount(s, u, initialBalance, type) ==
    /\ Free(s)
    /\ u \in users
    /\ CanAllocateAccount
    /\ LET r == [Request("createAccount", u) EXCEPT !.id = nextId.account, !.type = type]
       IN IF type # "" /\ type \notin VALID_TYPES
          THEN Answer(s, Reject([r EXCEPT !.id = 0], 400, "Tipo de conta invalido"))
          ELSE /\ accounts' = Extend(accounts, nextId.account,
                                     NewAccount(u, initialBalance, type))
               /\ nextId' = [nextId EXCEPT !.account = @ + 1]
               /\ commits' = commits + 1
               /\ reqs' = [reqs EXCEPT ![s] = Respond(r)]
               /\ UNCHANGED <<users, userTable, categories, expenses, receipts>>

\* ------------------------------------------------- GET /accounts
\* prisma.account.findMany({ where: { userId } })
GetAccounts(u) == {a \in DOMAIN accounts : accounts[a].userId = u}

\* ------------------------------------------------- GET /accounts/:id
GetAccountById(u, id) ==
    LET account == FindFirstAccount(id, u)
    IN IF account = NoRow
       THEN [status |-> 404, error |-> "Conta nao encontrada", account |-> NoRow]
       ELSE [status |-> 200, error |-> "", account |-> account]

\* ------------------------------------------------- PUT /accounts/:id
\* The read phase without the ownership check: the row is looked up by id
\* alone.
PutAccountReadUnscoped(u, id, name, type) ==
    LET r == [Request("putAccount", u) EXCEPT !.id = id, !.name = name, !.type = type]
    IN IF id \notin DOMAIN accounts THEN Reject(r, 404, "Conta nao encontrada")
       ELSE IF type # "" /\ type \notin VALID_TYPES
            THEN Reject(r, 400, "Tipo de conta invalido")
       ELSE [r EXCEPT !.pc = "update"]

\* The handler up to its write: the ownership read and the check of the type.
PutAccountRead(u, id, name, type) ==
    LET existingAccount == FindFirstAccount(id, u)
        r == [Request("putAccount", u) EXCEPT !.id = id, !.name = name, !.type = type]
    IN IF existingAccount = NoRow THEN Reject(r, 404, "Conta nao encontrada")
       ELSE IF type # "" /\ type \notin VALID_TYPES
            THEN Reject(r, 400, "Tipo de conta invalido")
       ELSE [r EXCEPT !.pc = "update"]

PutAccountStart(s, u, id, name, type) ==
    /\ Free(s)
    /\ u \in users
    /\ Answer(s, PutAccountRead(u, id, name, type))

\* data: { name, type, color, icon }: the row after the update.
PutAccountData(row, r) ==
    [row EXCEPT !.name = r.name, !.type = IF r.type = "" THEN @ ELSE r.type]

\* prisma.account.update({ where: { id }, data }); it throws when the row
\* is gone (the catch block's 500).
PutAccountUpdate(s) ==
    /\ At(s, "putAccount", "update")
    /\ LET r == reqs[s]
       IN IF r.id \notin DOMAIN accounts
          THEN Answer(s, Reject(r, 500, "Falha ao atualizar conta"))
          ELSE /\ accounts' = [accounts EXCEPT ![r.id] = PutAccountData(@, r)]
               /\ commits' = commits + 1
               /\ reqs' = [reqs EXCEPT ![s] = Respond(r)]
               /\ UNCHANGED <<users, userTable, categories, expenses, receipts, nextId>>

\* ------------------------------------------------- DELETE /accounts/:id
\* The relation Expense.account: an account that expenses reference cannot be
\* deleted (the store refuses the delete).
AccountReferencedNever(id) == FALSE
AccountReferenced(id) == \E e \in DOMAIN expenses : expenses[e].accountId = id

\* The handler up to its write: the ownership read.
DeleteAccountRead(u, id) ==
    LET existingAccount == FindFirstAccount(id, u)
        r == [Request("deleteAccount", u) EXCEPT !.id = id]
    IN IF existingAccount = NoRow THEN Reject(r, 404, "Conta nao encontrada")
       ELSE [r EXCEPT !.pc = "delete"]

DeleteAccountStart(s, u, id) ==
    /\ Free(s)
    /\ u \in users
    /\ Answer(s, DeleteAccountRead(u, id))

\* prisma.account.delete({ where: { id } }); it throws when the row is gone
\* or referenced (the catch block's 500).
DeleteAccountDelete(s) ==
    /\ At(s, "deleteAccount", "delete")
    /\ LET r == reqs[s]
       IN IF r.id \notin DOMAIN accounts \/ AccountReferenced(r.id)
          THEN Answer(s, Reject(r, 500, "Falha ao deletar conta"))
          ELSE /\ accounts' = Remove(accounts, r.id)
               /\ commits' = commits + 1
               /\ reqs' = [reqs EXCEPT ![s] = Respond(r)]
               /\ UNCHANGED <<users, userTable, categories, expenses, receipts, nextId>>

\* ------------------------------------------------- /categories
\* The relation Expense.category: a category that expenses reference cannot
\* be deleted (the store refuses the delete).
CategoryReferenced(id) == \E e \in DOMAIN expenses : expenses[e].categoryId = id

\* DELETE /categories/:id: prisma.category.delete({ where: { id } }), whoever
\* owns the category.
DeleteCategory(s, u, id) ==
    /\ Free(s)
    /\ u \in users
    /\ LET r == [Request("deleteCategory", u) EXCEPT !.id = id]
       IN IF id \notin DOMAIN categories \/ CategoryReferenced(id)
          THEN Answer(s, Reject(r, 500, "Falha ao deletar categoria"))
          ELSE /\ categories' = Remove(categories, id)
               /\ commits' = commits + 1
               /\ reqs' = [reqs EXCEPT ![s] = Respond(r)]
               /\ UNCHANGED <<users, userTable, accounts, expenses, receipts, nextId>>

\* GET /categories: prisma.category.findMany({ where: { userId } }).
GetCategories(u) == {c \in DOMAIN categories : categories[c].userId = u}

\* PUT /categories/:id: prisma.category.update({ where: { id }, data: { name } }),
\* whoever owns the category; the categories after the request.
CategoryNameInputs == {"Outros", "Renomeada"}
PutCategory(u, id, name) ==
    IF id \in DOMAIN categories
    THEN [categories EXCEPT ![id].name = name]
    ELSE categories

\* The handler of PUT /categories/:id: its one write, which throws when
\* the row does not exist (the catch block's 500).
PutCategoryRequest(s, u, id, name) ==
    /\ Free(s)
    /\ u \in users
    /\ LET r == [Request("putCategory", u) EXCEPT !.id = id, !.name = name]
       IN IF id \notin DOMAIN categories
          THEN Answer(s, Reject(r, 500, "Falha ao atualizar categoria"))
          ELSE /\ categories' = PutCategory(u, id, name)
               /\ commits' = commits + 1
               /\ reqs' = [reqs EXCEPT ![s] = Respond(r)]
               /\ UNCHANGED <<users, userTable, accounts, expenses, receipts, nextId>>

\* POST /categories: prisma.category.create({ data: { name, userId } }).
PostCategory(s, u, name) ==
    /\ Free(s)
    /\ u \in users
    /\ categories' = Extend(categories, nextId.category, [userId |-> u, name |-> name])
    /\ nextId' = [nextId EXCEPT !.category = @ + 1]
    /\ commits' = commits + 1
    /\ reqs' = [reqs EXCEPT ![s] =
                  Respond([Request("postCategory", u) EXCEPT !.id = nextId.category,
                                                             !.name = name])]
    /\ UNCHANGED <<users, userTable, accounts, expenses, receipts>>

\* ------------------------------------------------- POST /expenses
\* const updateAmount = (type === 'INCOME') ? amount : -amount
UpdateAmount(type, amount) == IF type = "INCOME" THEN amount ELSE -amount

\* type: (type || 'EXPENSE').toUpperCase()
StoredType(type) == ToUpperCase(IF type = "" THEN "EXPENSE" ELSE type)

\* The balance write as an absolute value computed from the account row the
\* ownership check read.
PostExpenseOperationsAbsolute(r) ==
    << Op("expense.create", 0, "", 0,
          [userId |-> r.userId, accountId |-> r.accountId,
           categoryId |-> r.categoryId, type |-> StoredType(r.type),
           amount |-> r.amount[1], transactionDate |-> r.date]),
       Op("account.update", r.accountId, "set",
          r.account[1].currentBalance + UpdateAmount(r.type, r.amount[1]), NoData) >>

PostExpenseOperations(r) ==
    << Op("expense.create", 0, "", 0,
          [userId |-> r.userId, accountId |-> r.accountId,
           categoryId |-> r.categoryId, type |-> StoredType(r.type),
           amount |-> r.amount[1], transactionDate |-> r.date]),
       Op("account.update", r.accountId, "increment",
          UpdateAmount(r.type, r.amount[1]), NoData) >>

\* The handler up to the answer of its first read: the ownership check of
\* the account.
PostExpenseReadAccount(u, type, amount, date, categoryId, accountId) ==
    LET account == FindFirstAccount(accountId, u)
        r == [Request("postExpense", u) EXCEPT
                 !.type = type, !.amount = <<amount>>, !.date = date,
                 !.categoryId = categoryId, !.accountId = accountId,
                 !.account = account]
    IN IF account = NoRow THEN Reject(r, 400, "Conta invalida")
       ELSE [r EXCEPT !.pc = "category"]

\* The second read accepting whatever category the request names.
PostExpenseReadCategoryAny(r) == [r EXCEPT !.pc = "batch"]

\* The second read: the ownership check of the category.
PostExpenseReadCategory(r) ==
    LET category == FindFirstCategory(r.categoryId, r.userId)
    IN IF category = NoRow THEN Reject(r, 400, "Categoria invalida")
       ELSE [r EXCEPT !.pc = "batch"]

\* The two ownership checks when no other request writes between them.
PostExpenseRead(u, type, amount, date, categoryId, accountId) ==
    LET r == PostExpenseReadAccount(u, type, amount, date, categoryId, accountId)
    IN IF r.pc = "done" THEN r ELSE PostExpenseReadCategory(r)

PostExpenseStart(s, u, type, amount, date, categoryId, accountId) ==
    /\ Free(s)
    /\ u \in users
    /\ CanAllocate(1)
    /\ Answer(s, PostExpenseReadAccount(u, type, amount, date, categoryId, accountId))

PostExpenseCategory(s) ==
    /\ At(s, "postExpense", "category")
    /\ Answer(s, PostExpenseReadCategory(reqs[s]))

PostExpenseBatch(s) ==
    /\ At(s, "postExpense", "batch")
    /\ RunBatch(s, reqs[s], Store, PostExpenseOperations(reqs[s]), "Falha ao criar despesa")
    /\ UNCHANGED receipts

\* ------------------------------------------------- PUT /expenses/:id
\* const revertVal = (oldExpense.type === 'EXPENSE' ? oldExpense.amount : -oldExpense.amount)
RevertVal(type, amount) == IF type = "EXPENSE" THEN amount ELSE -amount

\* const newVal = (oldExpense.type === 'INCOME' ? newAmount : -newAmount)
NewVal(type, newAmount) == IF type = "INCOME" THEN newAmount ELSE -newAmount

\* The fields the update writes: the request's, or the old row's when omitted.
NewAmount(r) == IF r.amount # <<>> THEN r.amount[1] ELSE r.old[1].amount
NewAccountId(r) == IF r.accountId # 0 THEN r.accountId ELSE r.old[1].accountId
NewDate(r) == IF r.date # 0 THEN r.date ELSE r.old[1].transactionDate
NewCategoryId(r) == IF r.categoryId # 0 THEN r.categoryId ELSE r.old[1].categoryId

\* The batch with the row replaced (deleted and created again) instead of
\* updated in place.
PutExpenseOperationsRecreate(r) ==
    LET old == r.old[1]
    IN << Op("expense.delete", r.id, "", 0, NoData),
          Op("expense.create", 0, "", 0,
             [old EXCEPT !.amount = NewAmount(r), !.transactionDate = NewDate(r),
                         !.categoryId = NewCategoryId(r),
                         !.accountId = NewAccountId(r)]) >>

PutExpenseOperations(r) ==
    LET old == r.old[1]
        revertVal == RevertVal(old.type, old.amount)
        newVal == NewVal(old.type, NewAmount(r))
        netChange == revertVal + newVal
        balance ==
            IF old.accountId = NewAccountId(r)
            THEN IF netChange # 0
                 THEN << Op("account.update", NewAccountId(r), "increment", netChange, NoData) >>
                 ELSE << >>
            ELSE << Op("account.update", old.accountId, "increment", revertVal, NoData),
                    Op("account.update", NewAccountId(r), "increment", newVal, NoData) >>
    IN balance \o
       << Op("expense.update", r.id, "", 0,
             [NoData EXCEPT !.amount = NewAmount(r), !.transactionDate = NewDate(r),
                            !.categoryId = NewCategoryId(r),
                            !.accountId = NewAccountId(r)]) >>

\* if (accountId && accountId !== oldExpense.accountId) and its twin for the
\* category: the request changes the reference and the handler reads it.
ChangesAccount(r) == r.accountId # 0 /\ r.accountId # r.old[1].accountId
ChangesCategory(r) == r.categoryId # 0 /\ r.categoryId # r.old[1].categoryId

\* The handler up to the answer of its first read: the old row, the 404 and
\* the 403.
PutExpenseReadOld(u, id, amount, date, categoryId, accountId) ==
    LET oldExpense == FindUniqueExpense(id)
        r == [Request("putExpense", u) EXCEPT
                 !.id = id, !.amount = amount, !.date = date,
                 !.categoryId = categoryId, !.accountId = accountId,
                 !.old = oldExpense]
    IN IF oldExpense = NoRow THEN Reject(r, 404, "Despesa nao encontrada")
       ELSE IF oldExpense[1].userId # u THEN Reject(r, 403, "Acesso negado")
       ELSE IF ChangesAccount(r) THEN [r EXCEPT !.pc = "account"]
       ELSE IF ChangesCategory(r) THEN [r EXCEPT !.pc = "category"]
       ELSE [r EXCEPT !.pc = "batch"]

\* The read of a changed account accepting whatever account is named.
PutExpenseReadAccountAny(r) ==
    IF ChangesCategory(r) THEN [r EXCEPT !.pc = "category"]
    ELSE [r EXCEPT !.pc = "batch"]

\* The ownership check of a changed account.
PutExpenseReadAccount(r) ==
    IF FindFirstAccount(r.accountId, r.userId) = NoRow
    THEN Reject(r, 400, "Conta invalida ou sem permissao")
    ELSE IF ChangesCategory(r) THEN [r EXCEPT !.pc = "category"]
    ELSE [r EXCEPT !.pc = "batch"]

\* The ownership check of a changed category.
PutExpenseReadCategory(r) ==
    IF FindFirstCategory(r.categoryId, r.userId) = NoRow
    THEN Reject(r, 400, "Categoria invalida ou sem permissao")
    ELSE [r EXCEPT !.pc = "batch"]

\* The reads of the handler when no other request writes between them.
PutExpenseRead(u, id, amount, date, categoryId, accountId) ==
    LET r1 == PutExpenseReadOld(u, id, amount, date, categoryId, accountId)
        r2 == IF r1.pc = "account" THEN PutExpenseReadAccount(r1) ELSE r1
    IN IF r2.pc = "category" THEN PutExpenseReadCategory(r2) ELSE r2

PutExpenseStart(s, u, id, amount, date, categoryId, accountId) ==
    /\ Free(s)
    /\ u \in users
    /\ Answer(s, PutExpenseReadOld(u, id, amount, date, categoryId, accountId))

PutExpenseAccount(s) ==
    /\ At(s, "putExpense", "account")
    /\ Answer(s, PutExpenseReadAccount(reqs[s]))

PutExpenseCategory(s) ==
    /\ At(s, "putExpense", "category")
    /\ Answer(s, PutExpenseReadCategory(reqs[s]))

PutExpenseBatch(s) ==
    /\ At(s, "putExpense", "batch")
    /\ RunBatch(s, reqs[s], Store, PutExpenseOperations(reqs[s]), "Falha ao atualizar despesa")
    /\ UNCHANGED receipts

\* ------------------------------------------------- DELETE /expenses/:id
\* const revertVal = (expense.type === 'EXPENSE' ? expense.amount : -expense.amount)
DeleteRevertVal(type, amount) == IF type = "EXPENSE" THEN amount ELSE -amount

DeleteExpenseOperations(r) ==
    << Op("account.update", r.old[1].accountId, "increment",
          DeleteRevertVal(r.old[1].type, r.old[1].amount), NoData),
       Op("expense.delete", r.id, "", 0, NoData) >>

\* The read phase that checks the row exists but not whose it is.
DeleteExpenseReadAnyOwner(u, id) ==
    LET expense == FindUniqueExpense(id)
        r == [Request("deleteExpense", u) EXCEPT !.id = id, !.old = expense]
    IN IF expense = NoRow THEN Reject(r, 404, "Despesa nao encontrada")
       ELSE [r EXCEPT !.pc = "receipt"]

\* The handler up to the receipt release: the read of the row and the checks.
DeleteExpenseRead(u, id) ==
    LET expense == FindUniqueExpense(id)
        r == [Request("deleteExpense", u) EXCEPT !.id = id, !.old = expense]
    IN IF expense = NoRow THEN Reject(r, 404, "Despesa nao encontrada")
       ELSE IF expense[1].userId # u THEN Reject(r, 403, "Acesso negado")
       ELSE [r EXCEPT !.pc = "receipt"]

\* deleteReceipt(userId, expenseId): the object store drops the key, or the
\* call fails and the failure is logged and swallowed.
DeleteReceipt(userId, expenseId, fails) ==
    IF fails THEN receipts ELSE receipts \ {<<userId, expenseId>>}

DeleteExpenseStart(s, u, id) ==
    /\ Free(s)
    /\ u \in users
    /\ Answer(s, DeleteExpenseRead(u, id))

\* The request after a receipt release whose failure reaches the catch
\* block.
AfterReceiptBlocking(r, fails) ==
    IF fails THEN Reject(r, 500, "Falha ao deletar despesa") ELSE [r EXCEPT !.pc = "batch"]

\* The request after await deleteReceipt(userId, id), failed or not.
AfterReceipt(r, fails) == [r EXCEPT !.pc = "batch"]

DeleteExpenseReceipt(s) ==
    /\ At(s, "deleteExpense", "receipt")
    /\ \E fails \in BOOLEAN :
        /\ receipts' = DeleteReceipt(reqs[s].userId, reqs[s].id, fails)
        /\ reqs' = [reqs EXCEPT ![s] =
                      LET r == AfterReceipt(reqs[s], fails)
                      IN IF r.pc = "done" THEN r
                         ELSE [r EXCEPT !.wrote = receipts' # receipts]]
    /\ UNCHANGED <<users, userTable, accounts, categories, expenses, nextId, commits>>

DeleteExpenseBatch(s) ==
    /\ At(s, "deleteExpense", "batch")
    /\ RunBatch(s, reqs[s], Store, DeleteExpenseOperations(reqs[s]), "Falha ao deletar despesa")
    /\ UNCHANGED receipts

\* ------------------------------------------------- POST /expenses/:id/receipt
\* uploadReceipt(file, userId, expenseId): the object store keeps the file
\* under the key userId/expenseId, or the call throws.
UploadReceipt(userId, expenseId) == receipts \cup {<<userId, expenseId>>}

\* The handler up to the upload: the 400 of a request without a file
\* (file = FALSE: req.file undefined), the read of the row, the 404 and the
\* 403.
PostReceiptRead(u, id, file) ==
    LET expense == FindUniqueExpense(id)
        r == [Request("postReceipt", u) EXCEPT !.id = id]
    IN IF ~file THEN Reject(r, 400, "Arquivo nao fornecido")
       ELSE IF expense = NoRow THEN Reject(r, 404, "Despesa nao encontrada")
       ELSE IF expense[1].userId # u THEN Reject(r, 403, "Acesso negado")
       ELSE [r EXCEPT !.pc = "upload"]

PostReceiptStart(s, u, id, file) ==
    /\ Free(s)
    /\ u \in users
    /\ Answer(s, PostReceiptRead(u, id, file))

\* await uploadReceipt(...): the file is stored, or the call throws (500).
PostReceiptUpload(s) ==
    /\ At(s, "postReceipt", "upload")
    /\ \/ Answer(s, Reject(reqs[s], 500, "Falha ao fazer upload do arquivo"))
       \/ /\ receipts' = UploadReceipt(reqs[s].userId, reqs[s].id)
          /\ commits' = commits + 1
          /\ reqs' = [reqs EXCEPT ![s] = Respond(reqs[s])]
          /\ UNCHANGED <<users, userTable, accounts, categories, expenses, nextId>>

\* ------------------------------------------------- DELETE /expenses/:id/receipt
\* The handler up to the receipt release: the read of the row, the 404 and
\* the 403.
DeleteReceiptRead(u, id) ==
    LET expense == FindUniqueExpense(id)
        r == [Request("deleteReceipt", u) EXCEPT !.id = id]
    IN IF expense = NoRow THEN Reject(r, 404, "Despesa nao encontrada")
       ELSE IF expense[1].userId # u THEN Reject(r, 403, "Acesso negado")
       ELSE [r EXCEPT !.pc = "release"]

DeleteReceiptStart(s, u, id) ==
    /\ Free(s)
    /\ u \in users
    /\ Answer(s, DeleteReceiptRead(u, id))

\* await deleteReceipt(userId, id), then the 200 whether it failed or not.
DeleteReceiptRelease(s) ==
    /\ At(s, "deleteReceipt", "release")
    /\ \E fails \in BOOLEAN :
        /\ receipts' = DeleteReceipt(reqs[s].userId, reqs[s].id, fails)
        /\ commits' = IF receipts' # receipts THEN commits + 1 ELSE commits
    /\ reqs' = [reqs EXCEPT ![s] = Respond(reqs[s])]
    /\ UNCHANGED <<users, userTable, accounts, categories, expenses, nextId>>

\* ------------------------------------------------- POST /accounts/transfer
\* prisma.category.findFirst({ where: { name: 'Transferência', userId } }):
\* any of the matching rows, 0 when there is none.
\* The lookup that never finds the category.
TransferCategoryNeverFound(u) == {0}

TransferCategoryFound(u) ==
    LET found == {c \in DOMAIN categories :
                    categories[c].name = TransferCategoryName /\ categories[c].userId = u}
    IN IF found = {} THEN {0} ELSE found

\* A transfer whose second balance write debits the destination as well.
TransferOperationsDebitBoth(r) ==
    << Op("expense.create", 0, "", 0,
          [userId |-> r.userId, accountId |-> r.accountId,
           categoryId |-> r.transferCategory, type |-> "TRANSFER_OUT",
           amount |-> r.amount[1], transactionDate |-> r.date]),
       Op("account.update", r.accountId, "increment", -r.amount[1], NoData),
       Op("expense.create", 0, "", 0,
          [userId |-> r.userId, accountId |-> r.destinationAccountId,
           categoryId |-> r.transferCategory, type |-> "TRANSFER_IN",
           amount |-> r.amount[1], transactionDate |-> r.date]),
       Op("account.update", r.destinationAccountId, "increment", -r.amount[1], NoData) >>

\* The four writes of the transfer batch, in the order the handler lists them.
TransferOperations(r) ==
    << Op("expense.create", 0, "", 0,
          [userId |-> r.userId, accountId |-> r.accountId,
           categoryId |-> r.transferCategory, type |-> "TRANSFER_OUT",
           amount |-> r.amount[1], transactionDate |-> r.date]),
       Op("account.update", r.accountId, "increment", -r.amount[1], NoData),
       Op("expense.create", 0, "", 0,
          [userId |-> r.userId, accountId |-> r.destinationAccountId,
           categoryId |-> r.transferCategory, type |-> "TRANSFER_IN",
           amount |-> r.amount[1], transactionDate |-> r.date]),
       Op("account.update", r.destinationAccountId, "increment", r.amount[1], NoData) >>

\* The handler up to the answer of its first read without the validation of
\* the request body.
TransferReadSourceNoValidation(u, sourceAccountId, destinationAccountId, amount, date) ==
    [Request("transfer", u) EXCEPT
        !.accountId = sourceAccountId,
        !.destinationAccountId = destinationAccountId,
        !.amount = <<amount>>, !.date = date,
        !.account = FindFirstAccount(sourceAccountId, u),
        !.pc = "destination"]

\* The handler up to the answer of its first read: the validation of the
\* body and the read of the source account.
TransferReadSource(u, sourceAccountId, destinationAccountId, amount, date) ==
    LET sourceAccount == FindFirstAccount(sourceAccountId, u)
        r == [Request("transfer", u) EXCEPT
                 !.accountId = sourceAccountId,
                 !.destinationAccountId = destinationAccountId,
                 !.amount = <<amount>>, !.date = date,
                 !.account = sourceAccount]
    IN IF sourceAccountId = destinationAccountId
       THEN Reject(r, 400, "Conta de origem e destino devem ser diferentes")
       ELSE IF amount <= 0 THEN Reject(r, 400, "Valor deve ser maior que zero")
       ELSE [r EXCEPT !.pc = "destination"]

\* The read of the destination by id alone, whoever owns it, and the check.
TransferReadDestinationAnyOwner(r) ==
    LET destinationAccount == IF r.destinationAccountId \in DOMAIN accounts
                              THEN <<accounts[r.destinationAccountId]>> ELSE NoRow
    IN IF r.account = NoRow \/ destinationAccount = NoRow
       THEN Reject(r, 400, "Conta de origem ou destino invalida")
       ELSE [r EXCEPT !.destination = destinationAccount, !.pc = "findcat"]

\* The read of the destination account and the check of both accounts.
TransferReadDestination(r) ==
    LET destinationAccount == FindFirstAccount(r.destinationAccountId, r.userId)
    IN IF r.account = NoRow \/ destinationAccount = NoRow
       THEN Reject(r, 400, "Conta de origem ou destino invalida")
       ELSE [r EXCEPT !.destination = destinationAccount, !.pc = "findcat"]

\* The look-up of the transfer category (found: the row it returns).
TransferFindCategory(r, found) ==
    IF found = 0 THEN [r EXCEPT !.pc = "createcat"]
    ELSE [r EXCEPT !.pc = "batch", !.transferCategory = found]

\* The reads of the handler when no other request writes between them.
TransferRead(u, sourceAccountId, destinationAccountId, amount, date, found) ==
    LET r1 == TransferReadSource(u, sourceAccountId, destinationAccountId, amount, date)
        r2 == IF r1.pc = "done" THEN r1 ELSE TransferReadDestination(r1)
    IN IF r2.pc = "done" THEN r2 ELSE TransferFindCategory(r2, found)

\* prisma.category.create({ data: { name: 'Transferência', userId } })
CreateTransferCategory(st, u) ==
    [st EXCEPT !.categories = Extend(st.categories, st.nextId.category,
                                     [userId |-> u, name |-> TransferCategoryName]),
               !.nextId.category = st.nextId.category + 1]

TransferStart(s, u, sourceAccountId, destinationAccountId, amount, date) ==
    /\ Free(s)
    /\ u \in users
    /\ CanAllocate(2)
    /\ Answer(s, TransferReadSource(u, sourceAccountId, destinationAccountId, amount, date))

TransferDestination(s) ==
    /\ At(s, "transfer", "destination")
    /\ Answer(s, TransferReadDestination(reqs[s]))

TransferCategory(s) ==
    /\ At(s, "transfer", "findcat")
    /\ \E found \in TransferCategoryFound(reqs[s].userId) :
        Answer(s, TransferFindCategory(reqs[s], found))

\* The category is created, or the store throws (the catch block's 500).
TransferCreateCategory(s) ==
    /\ At(s, "transfer", "createcat")
    /\ \/ Answer(s, Reject(reqs[s], 500, "Falha ao realizar transferencia"))
       \/ /\ LET st == CreateTransferCategory(Store, reqs[s].userId)
             IN /\ categories' = st.categories
                /\ nextId' = st.nextId
          /\ commits' = commits + 1
          /\ reqs' = [reqs EXCEPT ![s].pc = "batch", ![s].wrote = TRUE,
                                  ![s].transferCategory = nextId.category]
          /\ UNCHANGED <<users, userTable, accounts, expenses, receipts>>

TransferBatch(s) ==
    /\ At(s, "transfer", "batch")
    /\ RunBatch(s, reqs[s], Store, TransferOperations(reqs[s]), "Falha ao realizar transferencia")
    /\ UNCHANGED receipts

\* ------------------------------------------------- GET /accounts/balance
\* The reduce callback of the reconstruction: one expense folded into acc.
ReduceBalance(acc, expense) ==
    IF expense.type = "INCOME" \/ expense.type = "TRANSFER_IN"
    THEN acc + expense.amount
    ELSE acc - expense.amount

\* account.expenses.reduce(callback, 0) over the rows ids, folded into acc.
RECURSIVE Reduce(_, _)
Reduce(ids, acc) ==
    IF ids = {} THEN acc
    ELSE LET e == CHOOSE x \in ids : TRUE
         IN Reduce(ids \ {e}, ReduceBalance(acc, expenses[e]))

\* include: { expenses: true }: the rows of account a.
ExpensesOf(a) == {e \in DOMAIN expenses : expenses[e].accountId = a}

\* GET /accounts/balance: the balance reported for each account of user u.
GetBalance(u) ==
    [a \in {x \in DOMAIN accounts : accounts[x].userId = u} |-> Reduce(ExpensesOf(a), 0)]

\* ------------------------------------------------- GET /accounts/balance/:id
\* include: { expenses: { where: { transactionDate: { gte, lte } } } };
\* a bound of 0 is an absent query parameter (undefined: no bound).
ExpensesBetween(a, startDate, endDate) ==
    {e \in ExpensesOf(a) :
        /\ startDate # 0 => expenses[e].transactionDate >= startDate
        /\ endDate # 0 => expenses[e].transactionDate <= endDate}

\* The handler: NoRow for the 404, else the reported balance.
GetBalanceById(u, id, startDate, endDate) ==
    IF FindFirstAccount(id, u) = NoRow THEN NoRow
    ELSE <<Reduce(ExpensesBetween(id, startDate, endDate), 0)>>

\* ------------------------------------------------- getNetChange and the end of the day
\* One aggregate (a type and the sum of its amounts) folded into net by
\* getNetChange.
NetChangeTerm(net, type, amount) ==
    IF type = "INCOME" \/ type = "TRANSFER_IN" THEN net + amount ELSE net - amount

\* The instant end.setHours(23, 59, 59, 999) leaves without moving it.
EndAsGiven(t) == t

\* end.setHours(23, 59, 59, 999): the last instant of the day of t.
EndOfDay(t) == (t \div TicksPerDay) * TicksPerDay + TicksPerDay - 1

\* ------------------------------------------------- GET /expenses
\* A date string new Date(...) cannot parse: its getTime() is NaN, which
\* isNaN(start.getTime()) || isNaN(end.getTime()) answers with a 400.
InvalidDate == 0 - 1

\* orderBy: { transactionDate: 'desc' }: the lists the store may answer with
\* for the rows ids, latest first; rows of one instant come in any order.
RECURSIVE OrderByDateDesc(_)
OrderByDateDesc(ids) ==
    IF ids = {} THEN {<<>>}
    ELSE LET latest == {e \in ids : \A o \in ids :
                           expenses[e].transactionDate >= expenses[o].transactionDate}
         IN UNION {{<<e>> \o rest : rest \in OrderByDateDesc(ids \ {e})} : e \in latest}

\* The handler: the 400s, or the lists of row ids it may answer with; 0 is
\* an absent query parameter.
GetExpenses(u, accountId, startDate, endDate) ==
    IF startDate = 0 \/ endDate = 0
    THEN [status |-> 400, error |-> "Data inicial e final sao obrigatorias",
          expenses |-> {}]
    ELSE IF startDate = InvalidDate \/ endDate = InvalidDate
    THEN [status |-> 400, error |-> "Datas invalidas", expenses |-> {}]
    ELSE IF startDate > endDate
    THEN [status |-> 400, error |-> "Data inicial nao pode ser maior que a final",
          expenses |-> {}]
    ELSE LET end == EndOfDay(endDate)
         IN [status |-> 200, error |-> "",
             expenses |->
               OrderByDateDesc({e \in DOMAIN expenses :
                                  /\ expenses[e].userId = u
                                  /\ expenses[e].transactionDate >= startDate
                                  /\ expenses[e].transactionDate <= end
                                  /\ accountId # 0 => expenses[e].accountId = accountId})]

\* ------------------------------------------------- POST /accounts/balances: the handler
\* _sum: { amount: true } over the rows ids.
RECURSIVE SumAmount(_)
SumAmount(ids) ==
    IF ids = {} THEN 0
    ELSE LET e == CHOOSE x \in ids : TRUE
         IN expenses[e].amount + SumAmount(ids \ {e})

\* prisma.expense.groupBy({ by: ['accountId', 'type'], _sum: { amount } })
\* over the rows ids: one aggregate per account and type that has rows.
GroupBy(ids) ==
    {[accountId |-> k[1], type |-> k[2],
      sum |-> SumAmount({e \in ids : expenses[e].accountId = k[1] /\ expenses[e].type = k[2]})] :
        k \in {<<expenses[e].accountId, expenses[e].type>> : e \in ids}}

\* The for loop of getNetChange over the aggregates aggs, from net.
RECURSIVE NetOver(_, _)
NetOver(aggs, net) ==
    IF aggs = {} THEN net
    ELSE LET agg == CHOOSE x \in aggs : TRUE
         IN NetOver(aggs \ {agg}, NetChangeTerm(net, agg.type, agg.sum))

GetNetChange(aggs, accId) == NetOver({a \in aggs : a.accountId = accId}, 0)

\* The rows the two groupBy calls select: of the listed accounts and of the
\* user, dated after end, or from start to end.
FutureTransactions(u, accountIds, end) ==
    GroupBy({e \in DOMAIN expenses :
                /\ expenses[e].accountId \in accountIds
                /\ expenses[e].userId = u
                /\ expenses[e].transactionDate > end})
PeriodRows(u, accountIds, start, end) ==
    {e \in DOMAIN expenses :
        /\ expenses[e].accountId \in accountIds
        /\ expenses[e].userId = u
        /\ expenses[e].transactionDate >= start
        /\ expenses[e].transactionDate <= end}
PeriodTransactions(u, accountIds, start, end) ==
    GroupBy(PeriodRows(u, accountIds, start, end))

\* The figures of each account found, from the cached balances read first
\* and the two aggregations.
BalancesResults(balances, futureTransactions, periodTransactions) ==
    [a \in DOMAIN balances |->
        LET futureNet == GetNetChange(futureTransactions, a)
            periodNet == GetNetChange(periodTransactions, a)
            closingBalance == balances[a] - futureNet
            openingBalance == closingBalance - periodNet
        IN [openingBalance |-> openingBalance,
            closingBalance |-> closingBalance,
            periodNet |-> periodNet]]

\* The handler up to the answer of its first read: the two 400s (startDate
\* or endDate 0 is an absent field), then prisma.account.findMany, of which
\* the handler keeps the cached balance of each account found.
PostBalancesRead(u, accountIds, startDate, endDate) ==
    LET r == [Request("balances", u) EXCEPT !.accountIds = accountIds,
                                            !.startDate = startDate,
                                            !.endDate = endDate]
        found == {a \in DOMAIN accounts : a \in accountIds /\ accounts[a].userId = u}
    IN IF startDate = 0 \/ endDate = 0
       THEN Reject(r, 400, "Data inicial e final sao obrigatorias")
       ELSE IF accountIds = {} THEN Reject(r, 400, "Lista de contas invalida")
       ELSE [r EXCEPT !.pc = "future",
                      !.balances = [a \in found |-> accounts[a].currentBalance]]

PostBalancesStart(s, u, accountIds, startDate, endDate) ==
    /\ Free(s)
    /\ u \in users
    /\ Answer(s, PostBalancesRead(u, accountIds, startDate, endDate))

\* await prisma.expense.groupBy (the rows after the end of the end day).
PostBalancesFuture(s) ==
    /\ At(s, "balances", "future")
    /\ LET r == reqs[s]
       IN Answer(s, [r EXCEPT !.pc = "period",
                              !.futureTransactions =
                                  FutureTransactions(r.userId, r.accountIds,
                                                     EndOfDay(r.endDate))])

\* await prisma.expense.groupBy (the rows of the period), the figures and
\* the response.
PostBalancesPeriod(s) ==
    /\ At(s, "balances", "period")
    /\ LET r == reqs[s]
           periodTransactions ==
               PeriodTransactions(r.userId, r.accountIds, r.startDate,
                                  EndOfDay(r.endDate))
       IN Answer(s, [Respond(r) EXCEPT
                        !.results = BalancesResults(r.balances, r.futureTransactions,
                                                    periodTransactions)])
\* ------------------------------------------------------------------ next
PutAmountInputs == {<<>>} \cup {<<a>> : a \in AmountInputs}

\* Spec: a client sends one request at a time and waits for the answer
\* before it sends the next.  A request names an account, or omits it (0).
Next ==
    \/ \E u \in Users : RegisterStart(SeqSlot, u)
    \/ RegisterHash(SeqSlot)
    \/ RegisterCreate(SeqSlot)
    \/ \E u \in Users, b \in InitialBalanceInputs : CreateAccount(SeqSlot, u, b, "")
    \/ \E u \in Users, c \in CategoryIdInputs \cup TransferCategoryIds :
            DeleteCategory(SeqSlot, u, c)
    \/ \E u \in Users, c \in CategoryIdInputs, name \in CategoryNameInputs :
            PutCategoryRequest(SeqSlot, u, c, name)
    \/ \E u \in Users, name \in CategoryNameInputs : PostCategory(SeqSlot, u, name)
    \/ \E u \in Users, t \in TypeInputs, a \in AmountInputs, d \in DateInputs,
          c \in CategoryIdInputs, acc \in {0} \cup AccountIdInputs :
            PostExpenseStart(SeqSlot, u, t, a, d, c, acc)
    \/ PostExpenseCategory(SeqSlot)
    \/ PostExpenseBatch(SeqSlot)
    \/ \E u \in Users, id \in ExpenseIdInputs, a \in PutAmountInputs,
          d \in {0} \cup DateInputs, c \in {0} \cup CategoryIdInputs,
          acc \in {0} \cup AccountIdInputs :
            PutExpenseStart(SeqSlot, u, id, a, d, c, acc)
    \/ PutExpenseAccount(SeqSlot)
    \/ PutExpenseCategory(SeqSlot)
    \/ PutExpenseBatch(SeqSlot)
    \/ \E u \in Users, id \in ExpenseIdInputs : DeleteExpenseStart(SeqSlot, u, id)
    \/ DeleteExpenseReceipt(SeqSlot)
    \/ DeleteExpenseBatch(SeqSlot)
    \/ \E u \in Users, id \in ExpenseIdInputs, file \in BOOLEAN :
            PostReceiptStart(SeqSlot, u, id, file)
    \/ PostReceiptUpload(SeqSlot)
    \/ \E u \in Users, id \in ExpenseIdInputs : DeleteReceiptStart(SeqSlot, u, id)
    \/ DeleteReceiptRelease(SeqSlot)
    \/ \E u \in Users, src \in AccountIdInputs, dst \in AccountIdInputs,
          a \in TransferAmountInputs, d \in DateInputs :
            TransferStart(SeqSlot, u, src, dst, a, d)
    \/ TransferDestination(SeqSlot)
    \/ TransferCategory(SeqSlot)
    \/ TransferCreateCategory(SeqSlot)
    \/ TransferBatch(SeqSlot)

Spec == Init /\ [][Next]_vars

\* SpecConc: two requests, one per slot, run at once and their steps
\* interleave.  They start from a quiescent ledger a client of Spec reaches:
\* user 1 registered, a second account of user 1 created with
\* MaxInitialBalance, user 2 registered, the transfer category of user 1
\* deleted; then no expense, or one expense or income of MaxAmount posted by
\* user 1 and its receipt uploaded, or one transfer made by user 1.
ConcTypeInputs == {"EXPENSE", "INCOME"}

\* The ledger of user 1 alone.
BaseStore ==
    [ok |-> TRUE,
     accounts |-> Extend(Extend(<<>>, 1, Carteira(1)), 2,
                         [userId |-> 1, name |-> "Conta", type |-> "checking",
                          initialBalance |-> MaxInitialBalance,
                          currentBalance |-> MaxInitialBalance]),
     categories |-> CreateCategories(<<>>, 1, 1, SubSeq(DefaultCategories, 1, 8)),
     expenses |-> <<>>,
     nextId |-> [account |-> 3, category |-> 10, expense |-> 1]]

\* The ledger of users 1 and 2.
ConcStore ==
    [BaseStore EXCEPT
        !.accounts = Extend(@, 3, Carteira(2)),
        !.categories = CreateCategories(@, 10, 2, DefaultCategories),
        !.nextId = [account |-> 4, category |-> 10 + Len(DefaultCategories),
                    expense |-> 1]]

SeedRequests ==
    {[Request("postExpense", 1) EXCEPT !.type = t, !.amount = <<a>>, !.date = d,
                                       !.categoryId = 8, !.accountId = acc,
                                       !.account = <<ConcStore.accounts[acc]>>] :
        t \in ConcTypeInputs, a \in {MaxAmount}, d \in DateInputs, acc \in {1, 2}}

\* A transfer of MaxAmount from account 2 to account 1, which created the
\* user's transfer category, is the last of the seeds.
SeededStores ==
    {ConcStore}
    \cup {Transaction(ConcStore, PostExpenseOperations(r), 0) : r \in SeedRequests}
    \cup {Transaction(CreateTransferCategory(ConcStore, 1),
                      TransferOperations(
                          [Request("transfer", 1) EXCEPT
                              !.accountId = 2, !.destinationAccountId = 1,
                              !.amount = <<MaxAmount>>, !.date = 1,
                              !.transferCategory = ConcStore.nextId.category]), 0)}

ConcInit ==
    /\ users = {1, 2}
    /\ userTable = [u \in {1, 2} |-> [NewUser(u) EXCEPT !.isVerified = TRUE]]
    /\ \E st \in SeededStores :
        /\ accounts = st.accounts
        /\ categories = st.categories
        /\ expenses = st.expenses
        /\ nextId = st.nextId
    /\ receipts = {<<expenses[e].userId, e>> :
                      e \in {x \in DOMAIN expenses : expenses[x].type \in ConcTypeInputs}}
    /\ commits = 0
    /\ reqs = [s \in Slots |-> Idle]

\* The requests SpecConc issues: expenses and incomes, updates of the amount
\* and the account, on the expense ids allocated so far.
ConcExpenseIdInputs == {e \in ExpenseIdInputs : e < nextId.expense}
AllAccountIds == 1..MaxAccounts
Fresh(s) == reqs[s].pc = "idle"

ConcNext ==
    \E s \in Slots :
        \/ \E u \in Users, t \in ConcTypeInputs, a \in AmountInputs, d \in DateInputs,
              c \in CategoryIdInputs, acc \in AccountIdInputs :
                Fresh(s) /\ PostExpenseStart(s, u, t, a, d, c, acc)
        \/ PostExpenseCategory(s)
        \/ PostExpenseBatch(s)
        \/ \E u \in Users, id \in ConcExpenseIdInputs, a \in PutAmountInputs,
              c \in {0} \cup CategoryIdInputs, acc \in {0} \cup AccountIdInputs :
                Fresh(s) /\ PutExpenseStart(s, u, id, a, 0, c, acc)
        \/ PutExpenseAccount(s)
        \/ PutExpenseCategory(s)
        \/ PutExpenseBatch(s)
        \/ \E u \in Users, id \in ConcExpenseIdInputs :
                Fresh(s) /\ DeleteExpenseStart(s, u, id)
        \/ DeleteExpenseReceipt(s)
        \/ DeleteExpenseBatch(s)
        \/ \E u \in Users, src \in AccountIdInputs, dst \in AccountIdInputs,
              a \in AmountInputs, d \in DateInputs :
                Fresh(s) /\ TransferStart(s, u, src, dst, a, d)
        \/ TransferDestination(s)
        \/ TransferCategory(s)
        \/ TransferCreateCategory(s)
        \/ TransferBatch(s)
        \/ \E u \in Users, id \in AllAccountIds, name \in AccountNameInputs,
              type \in {"", "corrente"} :
                Fresh(s) /\ PutAccountStart(s, u, id, name, type)
        \/ PutAccountUpdate(s)
        \/ \E u \in Users, id \in AllAccountIds : Fresh(s) /\ DeleteAccountStart(s, u, id)
        \/ DeleteAccountDelete(s)

SpecConc == ConcInit /\ [][ConcNext]_vars

\* SpecConcFair: SpecConc where the store and the receipt collaborator
\* eventually answer every call a handler awaits.
Continue(s) ==
    \/ PostExpenseCategory(s)
    \/ PostExpenseBatch(s)
    \/ PutExpenseBatch(s)
    \/ DeleteExpenseReceipt(s)
    \/ DeleteExpenseBatch(s)
    \/ TransferDestination(s)
    \/ TransferCategory(s)
    \/ TransferCreateCategory(s)
    \/ TransferBatch(s)

\* It starts from the ledger without transactions or with one expense of
\* MaxAmount on account 1, and its requests carry the amount 1 and name
\* account 1, or accounts 1 and 2 for a transfer.
FairInit ==
    /\ ConcInit
    /\ \A e \in DOMAIN expenses :
          expenses[e] = [userId |-> 1, accountId |-> 1, categoryId |-> 8,
                         type |-> "EXPENSE", amount |-> MaxAmount,
                         transactionDate |-> 1]

FairNext ==
    \E s \in Slots :
        \/ Fresh(s) /\ PostExpenseStart(s, 1, "EXPENSE", 1, 1, 8, 1)
        \/ \E id \in ConcExpenseIdInputs, a \in PutAmountInputs :
                Fresh(s) /\ PutExpenseStart(s, 1, id, a, 0, 0, 0)
        \/ \E id \in ConcExpenseIdInputs : Fresh(s) /\ DeleteExpenseStart(s, 1, id)
        \/ Fresh(s) /\ TransferStart(s, 1, 1, 2, 1, 1)
        \/ Continue(s)

SpecConcFair == FairInit /\ [][FairNext]_vars /\ \A s \in Slots : WF_vars(Continue(s))

\* SpecPeriod: one user posts transactions dated at several instants of
\* several days, one request at a time, on the ledger BaseStore.  The posted
\* rows are EXPENSE and INCOME rows (the latter through the type "income");
\* transfers add TRANSFER_OUT and TRANSFER_IN rows.
PeriodDateInputs == 1 .. MaxPeriodDate

PeriodInit ==
    /\ users = {1}
    /\ userTable = Extend(<<>>, 1, [NewUser(1) EXCEPT !.isVerified = TRUE])
    /\ accounts = BaseStore.accounts
    /\ categories = BaseStore.categories
    /\ expenses = BaseStore.expenses
    /\ nextId = BaseStore.nextId
    /\ receipts = {}
    /\ commits = 0
    /\ reqs = [s \in Slots |-> Idle]

PeriodNext ==
    \/ \E t \in {"EXPENSE", "income"}, a \in AmountInputs, d \in PeriodDateInputs,
          acc \in AccountIdInputs :
            /\ nextId.expense <= MaxPeriodRows
            /\ PostExpenseStart(SeqSlot, 1, t, a, d, 8, acc)
    \/ PostExpenseCategory(SeqSlot)
    \/ PostExpenseBatch(SeqSlot)
    \/ \E src \in AccountIdInputs, dst \in AccountIdInputs, a \in AmountInputs,
          d \in PeriodDateInputs :
            /\ nextId.expense < MaxPeriodRows
            /\ TransferStart(SeqSlot, 1, src, dst, a, d)
    \/ TransferDestination(SeqSlot)
    \/ TransferCategory(SeqSlot)
    \/ TransferCreateCategory(SeqSlot)
    \/ TransferBatch(SeqSlot)

SpecPeriod == PeriodInit /\ [][PeriodNext]_vars

\* SpecBalances: POST /accounts/balances runs in slot BalancesSlot while a
\* POST /expenses or a DELETE /expenses/:id runs in the other slot, one
\* request each, their steps interleaving.  They start from the ledger
\* BaseStore of user 1 without transactions, or with one expense or income
\* of MaxAmount posted at an instant of PeriodDateInputs.
BalancesSlot == "r2"

BalancesSeededStores ==
    {BaseStore}
    \cup {Transaction(BaseStore,
                      PostExpenseOperations(
                          [Request("postExpense", 1) EXCEPT
                              !.type = t, !.amount = <<MaxAmount>>, !.date = d,
                              !.categoryId = 8, !.accountId = acc,
                              !.account = <<BaseStore.accounts[acc]>>]), 0) :
             t \in ConcTypeInputs, d \in PeriodDateInputs, acc \in {1, 2}}

BalancesInit ==
    /\ users = {1}
    /\ userTable = Extend(<<>>, 1, [NewUser(1) EXCEPT !.isVerified = TRUE])
    /\ \E st \in BalancesSeededStores :
        /\ accounts = st.accounts
        /\ categories = st.categories
        /\ expenses = st.expenses
        /\ nextId = st.nextId
    /\ receipts = {}
    /\ commits = 0
    /\ reqs = [s \in Slots |-> Idle]

\* The request names no account, one account or both, and its dates are
\* absent (0) or instants of PeriodDateInputs.
BalancesNext ==
    \/ \E ids \in {{}, {1}, {1, 2}}, startDate \in {0} \cup PeriodDateInputs,
          endDate \in {0} \cup PeriodDateInputs :
            Fresh(BalancesSlot) /\ PostBalancesStart(BalancesSlot, 1, ids, startDate, endDate)
    \/ PostBalancesFuture(BalancesSlot)
    \/ PostBalancesPeriod(BalancesSlot)
    \/ \E t \in ConcTypeInputs, d \in PeriodDateInputs, acc \in AccountIdInputs :
            Fresh(SeqSlot) /\ PostExpenseStart(SeqSlot, 1, t, MaxAmount, d, 8, acc)
    \/ PostExpenseCategory(SeqSlot)
    \/ PostExpenseBatch(SeqSlot)
    \/ \E id \in ConcExpenseIdInputs :
            Fresh(SeqSlot) /\ DeleteExpenseStart(SeqSlot, 1, id)
    \/ DeleteExpenseReceipt(SeqSlot)
    \/ DeleteExpenseBatch(SeqSlot)

SpecBalances == BalancesInit /\ [][BalancesNext]_vars

\* SpecAccounts: the sequential requests of Spec on fewer inputs (the
\* transactions dated at an instant of the first day or late on the next),
\* with the maintenance of accounts (PUT and DELETE /accounts/:id) among them.
\* req.body.amount is any number: negative, zero or positive.
AnyAmountInputs == (0 - 1)..MaxAmount

AccountsNext ==
    \/ \E u \in Users : RegisterStart(SeqSlot, u)
    \/ RegisterHash(SeqSlot)
    \/ RegisterCreate(SeqSlot)
    \/ \E u \in Users, b \in InitialBalanceInputs, type \in AccountTypeInputs :
            CreateAccount(SeqSlot, u, b, type)
    \/ \E u \in Users, id \in AllAccountIds, name \in AccountNameInputs,
          type \in AccountTypeInputs :
            PutAccountStart(SeqSlot, u, id, name, type)
    \/ PutAccountUpdate(SeqSlot)
    \/ \E u \in Users, id \in AllAccountIds : DeleteAccountStart(SeqSlot, u, id)
    \/ DeleteAccountDelete(SeqSlot)
    \/ \E u \in Users, c \in {0} \cup CategoryIdInputs \cup TransferCategoryIds,
          name \in CategoryNameInputs :
            PutCategoryRequest(SeqSlot, u, c, name)
    \/ \E u \in Users, name \in CategoryNameInputs : PostCategory(SeqSlot, u, name)
    \/ \E u \in Users, t \in ConcTypeInputs, a \in AnyAmountInputs,
          c \in CategoryIdInputs, acc \in AccountIdInputs :
            \E d \in {1, 2 * TicksPerDay - 1} : PostExpenseStart(SeqSlot, u, t, a, d, c, acc)
    \/ PostExpenseCategory(SeqSlot)
    \/ PostExpenseBatch(SeqSlot)
    \/ \E u \in Users, id \in ExpenseIdInputs,
          a \in {<<>>} \cup {<<x>> : x \in AnyAmountInputs},
          acc \in {0} \cup AccountIdInputs :
            PutExpenseStart(SeqSlot, u, id, a, 0, 0, acc)
    \/ PutExpenseAccount(SeqSlot)
    \/ PutExpenseBatch(SeqSlot)
    \/ \E u \in Users, id \in ExpenseIdInputs : DeleteExpenseStart(SeqSlot, u, id)
    \/ DeleteExpenseReceipt(SeqSlot)
    \/ DeleteExpenseBatch(SeqSlot)
    \/ \E u \in Users, src \in AccountIdInputs, dst \in AccountIdInputs,
          a \in TransferAmountInputs :
            TransferStart(SeqSlot, u, src, dst, a, 1)
    \/ TransferDestination(SeqSlot)
    \/ TransferCategory(SeqSlot)
    \/ TransferCreateCategory(SeqSlot)
    \/ TransferBatch(SeqSlot)

SpecAccounts == Init /\ [][AccountsNext]_vars

\* SpecAuth: registration, e-mail verification and login, two requests at a
\* time.  An address nobody registered is the number past the users'.
AuthNext ==
    \E s \in Slots :
        \/ \E u \in Users : RegisterStart(s, u)
        \/ RegisterHash(s)
        \/ RegisterCreate(s)
        \/ \E token \in {0, InvalidToken} \cup Users : VerifyEmailStart(s, token)
        \/ VerifyEmailUpdate(s)
        \/ \E email \in Users \cup {Cardinality(Users) + 1}, password \in PasswordInputs :
                LoginStart(s, email, password)
        \/ LoginCompare(s)

SpecAuth == Init /\ [][AuthNext]_vars

\* ------------------------------------------------------------------ claims
\* The sign convention of the specification: INCOME and TRANSFER_IN add the
\* amount to the balance, EXPENSE and TRANSFER_OUT subtract it.
SignedAmount(type, amount) ==
    CASE type \in {"INCOME", "TRANSFER_IN"} -> amount
      [] type \in {"EXPENSE", "TRANSFER_OUT"} -> -amount

RECURSIVE SignedSumOver(_, _)
SignedSumOver(ids, a) ==
    IF ids = {} THEN 0
    ELSE LET e == CHOOSE x \in ids : TRUE
         IN (IF expenses[e].accountId = a
             THEN SignedAmount(expenses[e].type, expenses[e].amount) ELSE 0)
            + SignedSumOver(ids \ {e}, a)
SignedSum(a) == SignedSumOver(DOMAIN expenses, a)

BalanceInvariant ==
    \A a \in DOMAIN accounts :
        accounts[a].currentBalance = accounts[a].initialBalance + SignedSum(a)

Quiescent == \A s \in Slots : ~InFlight(s)

\* The step is one of the request of slot s.
Steps(s) == reqs'[s] # reqs[s]
\* Slot s takes a request in this step: the handler runs up to its first
\* awaited call and that call.
Starts(s) == ~InFlight(s) /\ Steps(s)
\* The request of slot s is answered in this step.
Answers(s) == Steps(s) /\ reqs'[s].pc = "done"
\* The write batch of slot s runs in this step: committed and answered 200,
\* or rolled back and answered 500.
Commits(s, op) == At(s, op, "batch") /\ reqs'[s].pc = "done"
Succeeds(s, op) == Commits(s, op) /\ reqs'[s].status = 200
MutatingOps == {"postExpense", "putExpense", "deleteExpense", "transfer"}

\* C1: after any sequence of operations run one at a time, every account's
\* cached balance is its initial balance plus the signed sum of the
\* transactions that reference it.
C1_BalanceInvariant == Quiescent => BalanceInvariant

\* C2: when two requests that update or delete the same transaction have both
\* finished, however their reads and write batches interleaved, the balance
\* invariant holds.
C2_ConcurrentMutationsKeepInvariant ==
    (/\ \A s \in Slots : /\ reqs[s].pc = "done"
                         /\ reqs[s].op \in {"putExpense", "deleteExpense"}
     /\ \A s, t \in Slots : reqs[s].id = reqs[t].id)
    => BalanceInvariant

\* C3: every create or transfer batch that commits changes each account's
\* cached balance by exactly its own delta, counted from the balance the
\* store holds when the batch runs: no delta of a concurrent posting is lost.
PostingDelta(r, a) ==
    CASE r.op = "postExpense" ->
            IF a = r.accountId THEN UpdateAmount(r.type, r.amount[1]) ELSE 0
      [] r.op = "transfer" ->
            IF a = r.accountId THEN -r.amount[1]
            ELSE IF a = r.destinationAccountId THEN r.amount[1] ELSE 0
C3_NoPostingDeltaLost ==
    [][\A s \in Slots :
         (Succeeds(s, "postExpense") \/ Succeeds(s, "transfer"))
         => \A a \in DOMAIN accounts :
              accounts'[a].currentBalance
                = accounts[a].currentBalance + PostingDelta(reqs[s], a)]_vars
\* One posting on an account has committed while another, which read the
\* account before that commit, is about to run its batch.
C3_Witness ==
    \E s, t \in Slots :
        /\ s # t
        /\ reqs[s].op \in {"postExpense", "transfer"}
        /\ reqs[s].pc = "done" /\ reqs[s].status = 200
        /\ reqs[t].op \in {"postExpense", "transfer"}
        /\ reqs[t].pc = "batch"
        /\ reqs[t].accountId \in {reqs[s].accountId, reqs[s].destinationAccountId}
        /\ reqs[t].account[1].currentBalance
             # accounts[reqs[t].accountId].currentBalance

\* C4: a successful transfer of n from A to B lowers A's cached balance by n,
\* raises B's by n, changes no other account, and adds exactly two
\* transactions: a TRANSFER_OUT of n on A and a TRANSFER_IN of n on B.
C4_TransferSymmetry ==
    [][\A s \in Slots : Succeeds(s, "transfer") =>
         LET r == reqs[s]
             A == r.accountId
             B == r.destinationAccountId
             n == r.amount[1]
             out == nextId.expense
             in == nextId.expense + 1
         IN /\ A # B
            /\ accounts[A].userId = r.userId /\ accounts[B].userId = r.userId
            /\ DOMAIN accounts' = DOMAIN accounts
            /\ accounts'[A] = [accounts[A] EXCEPT !.currentBalance = @ - n]
            /\ accounts'[B] = [accounts[B] EXCEPT !.currentBalance = @ + n]
            /\ \A a \in DOMAIN accounts \ {A, B} : accounts'[a] = accounts[a]
            /\ DOMAIN expenses' = DOMAIN expenses \cup {out, in}
            /\ {out, in} \cap DOMAIN expenses = {}
            /\ \A e \in DOMAIN expenses : expenses'[e] = expenses[e]
            /\ expenses'[out].type = "TRANSFER_OUT" /\ expenses'[out].accountId = A
            /\ expenses'[out].amount = n /\ expenses'[out].userId = r.userId
            /\ expenses'[in].type = "TRANSFER_IN" /\ expenses'[in].accountId = B
            /\ expenses'[in].amount = n /\ expenses'[in].userId = r.userId]_vars
C4_Witness ==
    /\ \E s \in Slots : reqs[s].op = "transfer" /\ reqs[s].status = 200
    /\ \E e \in DOMAIN expenses : expenses[e].type = "TRANSFER_OUT"
    /\ \E e \in DOMAIN expenses : expenses[e].type = "TRANSFER_IN"
    /\ Cardinality(DOMAIN accounts) > 2

\* C5: the write batch of a transfer either commits both legs with both
\* balance changes, or, when the store fails at any of its four writes,
\* leaves every transaction and every balance as it was.
C5_TransferAllOrNothing ==
    [][\A s \in Slots :
         Commits(s, "transfer") =>
           LET r == reqs[s]
               n == r.amount[1]
           IN \/ /\ reqs'[s].status = 500
                 /\ accounts' = accounts
                 /\ expenses' = expenses
              \/ /\ reqs'[s].status = 200
                 /\ Cardinality(DOMAIN expenses') = Cardinality(DOMAIN expenses) + 2
                 /\ accounts'[r.accountId].currentBalance
                      = accounts[r.accountId].currentBalance - n
                 /\ accounts'[r.destinationAccountId].currentBalance
                      = accounts[r.destinationAccountId].currentBalance + n]_vars
\* A transfer whose batch the store aborted has answered 500.
C5_Witness ==
    \E s \in Slots : /\ reqs[s].op = "transfer"
                     /\ reqs[s].pc = "done"
                     /\ reqs[s].status = 500

\* C6: every balance computation maps a transaction type to the same sign:
\* the create delta, the update's revert and reapply, the delete's revert, the
\* reconstruction and the period aggregation, for each type of a stored row.
C6_SignMappingConsistent ==
    /\ \A e \in DOMAIN expenses :
         LET t == expenses[e].type
             a == expenses[e].amount
         IN /\ ReduceBalance(0, expenses[e]) = SignedAmount(t, a)
            /\ NetChangeTerm(0, t, a) = SignedAmount(t, a)
            /\ RevertVal(t, a) = -SignedAmount(t, a)
            /\ NewVal(t, a) = SignedAmount(t, a)
            /\ DeleteRevertVal(t, a) = -SignedAmount(t, a)
    /\ \A s \in Slots :
         LET r == reqs[s]
         IN (r.op = "postExpense" /\ r.status = 200)
            => UpdateAmount(r.type, r.amount[1])
                 = SignedAmount(StoredType(r.type), r.amount[1])

\* C7: a successful POST /expenses stores the request's type upper-cased
\* (EXPENSE when omitted) and adds signedAmount(stored type, amount) to the
\* account's cached balance, in the step that adds the row.
C7_CreateAppliesSignedAmount ==
    [][\A s \in Slots : Succeeds(s, "postExpense") =>
         LET r == reqs[s]
             id == nextId.expense
         IN /\ id \notin DOMAIN expenses
            /\ id \in DOMAIN expenses'
            /\ expenses'[id].type = StoredType(r.type)
            /\ accounts'[r.accountId].currentBalance
                 = accounts[r.accountId].currentBalance
                   + SignedAmount(expenses'[id].type, r.amount[1])]_vars

\* C8: after the accounts were created, one EXPENSE or INCOME transaction was
\* posted and nothing else was committed; deleting that transaction removes
\* the row and puts its account back to the balance it had before the posting.
\* (Every registration and every POST /accounts is one committed write that
\* adds one account.)
OnlyOnePosting ==
    /\ commits = Cardinality(DOMAIN accounts) + 1
    /\ nextId.expense = Cardinality(DOMAIN expenses) + 1
    /\ DOMAIN expenses # {}
C8_CreateThenDeleteRestores ==
    [][(/\ \E s \in Slots : Succeeds(s, "deleteExpense")
        /\ OnlyOnePosting
        /\ \A e \in DOMAIN expenses : expenses[e].type \in {"EXPENSE", "INCOME"})
       => /\ expenses' = <<>>
          /\ \A a \in DOMAIN accounts :
               accounts'[a].currentBalance = accounts[a].initialBalance]_vars

\* C9: deleting a transfer leg changes its account's cached balance by
\* -signedAmount(type, amount): up by the amount for a TRANSFER_OUT, down by
\* the amount for a TRANSFER_IN.
C9_DeleteTransferLegReverts ==
    [][\A s \in Slots :
         (/\ Succeeds(s, "deleteExpense")
          /\ expenses[reqs[s].id].type \in {"TRANSFER_IN", "TRANSFER_OUT"})
         => LET row == expenses[reqs[s].id]
            IN accounts'[row.accountId].currentBalance
                 = accounts[row.accountId].currentBalance
                   - SignedAmount(row.type, row.amount)]_vars

\* C10: an update that sets a transaction's amount to the amount it already
\* has, and changes nothing else, leaves every cached balance as it was.
C10_SameAmountUpdateKeepsBalances ==
    [][\A s \in Slots :
         (/\ Succeeds(s, "putExpense")
          /\ reqs[s].amount = <<expenses[reqs[s].id].amount>>
          /\ reqs[s].date = 0
          /\ reqs[s].categoryId = 0
          /\ reqs[s].accountId = 0)
         => accounts' = accounts]_vars

\* The sum of the cached balances of the accounts of user u in table accs.
RECURSIVE TotalOver(_, _, _)
TotalOver(accs, ids, u) ==
    IF ids = {} THEN 0
    ELSE LET a == CHOOSE x \in ids : TRUE
         IN (IF accs[a].userId = u THEN accs[a].currentBalance ELSE 0)
            + TotalOver(accs, ids \ {a}, u)

\* C11: an update that moves a transaction from account A to account B and
\* keeps its amount changes A's cached balance by -signedAmount(type, amount)
\* and B's by +signedAmount(type, amount) in one step, so the sum of the
\* user's cached balances is the same before and after.
C11_CrossAccountMovePreservesTotal ==
    [][\A s \in Slots :
         (/\ Succeeds(s, "putExpense")
          /\ reqs[s].accountId # 0
          /\ reqs[s].accountId # expenses[reqs[s].id].accountId
          /\ reqs[s].amount \in {<<>>, <<expenses[reqs[s].id].amount>>})
         => LET r == reqs[s]
                row == expenses[r.id]
                A == row.accountId
                B == r.accountId
                d == SignedAmount(row.type, row.amount)
            IN /\ accounts'[A].currentBalance = accounts[A].currentBalance - d
               /\ accounts'[B].currentBalance = accounts[B].currentBalance + d
               /\ TotalOver(accounts', DOMAIN accounts', r.userId)
                    = TotalOver(accounts, DOMAIN accounts, r.userId)]_vars

\* The ledger: everything the store holds and the receipt store.
Ledger == <<users, userTable, accounts, categories, expenses, receipts, nextId>>
OwnsAccount(u, acc) == acc \in DOMAIN accounts /\ accounts[acc].userId = u
OwnsCategory(u, c) == c \in DOMAIN categories /\ categories[c].userId = u

\* C12: in every reachable ledger, POST /expenses answers 400 to every
\* request naming an account or a category the acting user does not own: at
\* the look-up of the account, or, for a request already past it, at the
\* look-up of the category whatever other requests did in between; and a POST
\* /expenses answered with 400 leaves the ledger as it was: no row is created
\* and no balance changes.
C12_PostReadRejects ==
    /\ \A u \in users, t \in ConcTypeInputs, a \in {MaxAmount}, d \in DateInputs,
          c \in {nextId.category} \cup CategoryIdInputs,
          acc \in {nextId.account} \cup AccountIdInputs :
            (~OwnsAccount(u, acc) \/ ~OwnsCategory(u, c))
            => LET r == PostExpenseRead(u, t, a, d, c, acc)
               IN r.pc = "done" /\ r.status = 400
    /\ \A s \in Slots :
            (At(s, "postExpense", "category")
             /\ ~OwnsCategory(reqs[s].userId, reqs[s].categoryId))
            => LET r == PostExpenseReadCategory(reqs[s])
               IN r.pc = "done" /\ r.status = 400
C12_PostRejectsForeignReferences ==
    /\ []C12_PostReadRejects
    /\ [][\A s \in Slots :
            (Answers(s) /\ reqs'[s].op = "postExpense" /\ reqs'[s].status = 400)
            => UNCHANGED Ledger]_vars
\* A POST /expenses was answered 400 while another user's account exists.
C12_Witness ==
    \E s \in Slots :
        /\ reqs[s].op = "postExpense"
        /\ reqs[s].status = 400
        /\ \E acc \in DOMAIN accounts : accounts[acc].userId # reqs[s].userId

\* C13: in every reachable ledger, PUT /expenses/:id answers 400 to every
\* request of the transaction's owner that changes its account or its
\* category to one the owner does not own: in the look-ups run one after the
\* other, and for a request in flight at the look-up it is about to make; and
\* a PUT answered with 400 leaves the row and every balance as they were.
C13_PutReadRejects ==
    /\ \A u \in users, id \in DOMAIN expenses, a \in {<<>>}, d \in {0},
          c \in {0, nextId.category} \cup CategoryIdInputs,
          acc \in {0, nextId.account} \cup AccountIdInputs :
            (/\ expenses[id].userId = u
             /\ \/ acc # 0 /\ acc # expenses[id].accountId /\ ~OwnsAccount(u, acc)
                \/ c # 0 /\ c # expenses[id].categoryId /\ ~OwnsCategory(u, c))
            => LET r == PutExpenseRead(u, id, a, d, c, acc)
               IN r.pc = "done" /\ r.status = 400
    /\ \A s \in Slots :
          /\ (At(s, "putExpense", "account")
              /\ ~OwnsAccount(reqs[s].userId, reqs[s].accountId))
             => LET r == PutExpenseReadAccount(reqs[s])
                IN r.pc = "done" /\ r.status = 400
          /\ (At(s, "putExpense", "category")
              /\ ~OwnsCategory(reqs[s].userId, reqs[s].categoryId))
             => LET r == PutExpenseReadCategory(reqs[s])
                IN r.pc = "done" /\ r.status = 400
C13_PutRejectsForeignReferences ==
    /\ []C13_PutReadRejects
    /\ [][\A s \in Slots :
            (Answers(s) /\ reqs'[s].op = "putExpense" /\ reqs'[s].status = 400)
            => UNCHANGED Ledger]_vars
\* A PUT of the owner was answered 400 while another user's account exists.
C13_Witness ==
    \E s \in Slots :
        /\ reqs[s].op = "putExpense"
        /\ reqs[s].status = 400
        /\ reqs[s].id \in DOMAIN expenses
        /\ expenses[reqs[s].id].userId = reqs[s].userId
        /\ \E acc \in DOMAIN accounts : accounts[acc].userId # reqs[s].userId

\* C14: a PUT or DELETE on /expenses/:id is answered 404 when no transaction
\* has that id and 403 when the transaction belongs to another user, and in
\* both cases no row, balance or receipt changes; its write batch commits
\* only on a transaction of the acting user.
C14_OnlyOwnerMutates ==
    [][\A s \in Slots :
         /\ (Starts(s) /\ reqs'[s].op \in {"putExpense", "deleteExpense"})
            => LET r == reqs'[s]
               IN /\ r.id \notin DOMAIN expenses
                     => r.pc = "done" /\ r.status = 404
                  /\ (r.id \in DOMAIN expenses /\ expenses[r.id].userId # r.userId)
                     => r.pc = "done" /\ r.status = 403
         /\ (/\ Answers(s)
             /\ reqs'[s].op \in {"putExpense", "deleteExpense"}
             /\ reqs'[s].status \in {403, 404})
            => UNCHANGED Ledger
         /\ (Succeeds(s, "putExpense") \/ Succeeds(s, "deleteExpense"))
            => /\ reqs[s].id \in DOMAIN expenses
               /\ expenses[reqs[s].id].userId = reqs[s].userId]_vars
\* Another user's DELETE of an existing transaction was answered 403.
C14_Witness ==
    \E s \in Slots :
        LET r == reqs[s]
        IN /\ r.op = "deleteExpense"
           /\ r.status = 403
           /\ r.id \in DOMAIN expenses
           /\ expenses[r.id].userId # r.userId

InvalidTransferErrors ==
    {"Conta de origem e destino devem ser diferentes", "Valor deve ser maior que zero"}

\* C15: in every reachable ledger, POST /accounts/transfer answers 400
\* (InvalidTransfer) to every request whose source equals its destination or
\* whose amount is zero or negative, before any look-up; and a transfer
\* answered with 400 creates no transaction and no category and changes no
\* balance.
C15_TransferReadRejects ==
    \A u \in users, src \in AccountIdInputs, dst \in AccountIdInputs,
       a \in {-1, 0, MaxAmount}, d \in DateInputs :
        (src = dst \/ a <= 0)
        => LET r == TransferReadSource(u, src, dst, a, d)
           IN r.pc = "done" /\ r.status = 400 /\ r.error \in InvalidTransferErrors
C15_TransferRejectsInvalid ==
    /\ []C15_TransferReadRejects
    /\ [][\A s \in Slots :
            (Answers(s) /\ reqs'[s].op = "transfer" /\ reqs'[s].status = 400)
            => UNCHANGED Ledger]_vars
\* A transfer was answered with one of the two InvalidTransfer errors by a
\* user who has two accounts and no transfer category.
C15_Witness ==
    \E s \in Slots :
        LET r == reqs[s]
        IN /\ r.op = "transfer"
           /\ r.status = 400
           /\ r.error \in InvalidTransferErrors
           /\ Cardinality({a \in DOMAIN accounts : accounts[a].userId = r.userId}) > 1
           /\ TransferCategoryFound(r.userId) = {0}

\* C16: in every reachable ledger, POST /accounts/transfer answers 400 to
\* every request whose source or destination account is not the acting
\* user's (InvalidReference when the body is otherwise valid): in the
\* look-ups run one after the other, and for a request in flight at the
\* look-up of the destination; and a transfer answered with 400 creates no
\* transaction and no category and changes no balance of any user.
C16_TransferReadRejects ==
    /\ \A u \in users, src \in {nextId.account} \cup AccountIdInputs,
          dst \in {nextId.account} \cup AccountIdInputs,
          a \in {0, MaxAmount}, d \in DateInputs :
            (~OwnsAccount(u, src) \/ ~OwnsAccount(u, dst))
            => LET r == TransferRead(u, src, dst, a, d, 0)
               IN /\ r.pc = "done"
                  /\ r.status = 400
                  /\ (src # dst /\ a > 0)
                     => r.error = "Conta de origem ou destino invalida"
    /\ \A s \in Slots :
            (/\ At(s, "transfer", "destination")
             /\ \/ reqs[s].account = NoRow
                \/ ~OwnsAccount(reqs[s].userId, reqs[s].destinationAccountId))
            => LET r == TransferReadDestination(reqs[s])
               IN /\ r.pc = "done"
                  /\ r.status = 400
                  /\ r.error = "Conta de origem ou destino invalida"
C16_TransferRejectsForeignAccounts ==
    /\ []C16_TransferReadRejects
    /\ [][\A s \in Slots :
            (Answers(s) /\ reqs'[s].op = "transfer" /\ reqs'[s].status = 400)
            => (UNCHANGED Ledger /\ UNCHANGED commits)]_vars
\* A transfer was answered InvalidReference while another user's account
\* exists.
C16_Witness ==
    \E s \in Slots :
        LET r == reqs[s]
        IN /\ r.op = "transfer"
           /\ r.status = 400
           /\ r.error = "Conta de origem ou destino invalida"
           /\ \E acc \in DOMAIN accounts : accounts[acc].userId # r.userId

\* C17: at any quiescent point the balance reconstructed without a date range,
\* by GET /accounts/balance and by GET /accounts/balance/:id, is the account's
\* cached balance, and is its initial balance plus the signed sum of its
\* transactions.
C17_ReconstructionAgrees ==
    Quiescent =>
      \A a \in DOMAIN accounts :
        LET u == accounts[a].userId
        IN /\ GetBalance(u)[a] = accounts[a].initialBalance + SignedSum(a)
           /\ GetBalanceById(u, a, 0, 0) = <<accounts[a].initialBalance + SignedSum(a)>>
           /\ GetBalance(u)[a] = accounts[a].currentBalance
           /\ GetBalanceById(u, a, 0, 0) = <<accounts[a].currentBalance>>

\* The day an instant falls on.
Day(t) == t \div TicksPerDay

\* C18: each account POST /accounts/balances answers with has
\* closingBalance - openingBalance = periodNet, and periodNet is the signed
\* sum of the account's transactions dated from start to the end of the end
\* day, whatever request ran beside it; the accounts answered are accounts of
\* the list.
C18_OpeningClosingConsistent ==
    [][\A s \in Slots :
         (Answers(s) /\ reqs[s].op = "balances" /\ reqs'[s].status = 200)
         => LET r == reqs'[s]
            IN /\ DOMAIN r.results \subseteq r.accountIds
               /\ \A a \in DOMAIN r.results :
                    /\ r.results[a].closingBalance - r.results[a].openingBalance
                         = r.results[a].periodNet
                    /\ r.results[a].periodNet
                         = SignedSumOver({e \in DOMAIN expenses :
                                            /\ expenses[e].transactionDate >= r.startDate
                                            /\ Day(expenses[e].transactionDate)
                                                 <= Day(r.endDate)}, a)]_vars
\* A balances request was answered with a non-zero periodNet for an account
\* holding a transaction later on the end day than the instant given as end,
\* after the request beside it committed.
C18_Witness ==
    LET r == reqs[BalancesSlot]
    IN /\ r.op = "balances" /\ r.pc = "done" /\ r.status = 200
       /\ reqs[SeqSlot].pc = "done" /\ reqs[SeqSlot].status = 200
       /\ \E a \in DOMAIN r.results : \E e \in ExpensesOf(a) :
            /\ expenses[e].transactionDate > r.endDate
            /\ Day(expenses[e].transactionDate) = Day(r.endDate)
            /\ r.results[a].periodNet # 0

\* The requests that ran beside the one of slot s added transactions dated
\* after its end day and touched no other: the transactions up to the end
\* day are the same in every state the request of slot s went through.
C19_OnlyLaterRowsTouched(s) ==
    \A o \in Slots \ {s} :
        \/ reqs[o].pc = "idle"
        \/ /\ reqs[o].op = "postExpense"
           /\ Day(reqs[o].date) > Day(reqs[s].endDate)

\* C19: POST /accounts/balances reports closingBalance = cached balance minus
\* the signed sum of the account's transactions dated after the end day; with
\* no such transaction the closing balance is the cached balance, and when the
\* account satisfies the balance invariant the closing balance is its initial
\* balance plus the signed sum of its transactions dated up to the end day.
\* Stated for the answers of requests beside which only transactions dated
\* after the end day were added.
C19_ClosingFromCachedBalance ==
    [][\A s \in Slots :
         (/\ Answers(s) /\ reqs[s].op = "balances" /\ reqs'[s].status = 200
          /\ C19_OnlyLaterRowsTouched(s))
         => \A a \in DOMAIN reqs'[s].results :
              LET closing == reqs'[s].results[a].closingBalance
                  end == reqs[s].endDate
                  after == {e \in ExpensesOf(a) : Day(expenses[e].transactionDate) > Day(end)}
                  upTo == {e \in ExpensesOf(a) : Day(expenses[e].transactionDate) <= Day(end)}
              IN /\ closing = accounts[a].currentBalance - SignedSumOver(after, a)
                 /\ after = {} => closing = accounts[a].currentBalance
                 /\ accounts[a].currentBalance = accounts[a].initialBalance + SignedSum(a)
                    => closing = accounts[a].initialBalance + SignedSumOver(upTo, a)]_vars
\* C20: in every reachable ledger, a store failure at any write of the batch
\* of a cross-account update leaves every balance and every row as it was;
\* and the step in which a create, update, delete or transfer is answered
\* with the server error 500 changes no account balance and no transaction
\* row.
C20_FailedCrossAccountEdit ==
    \A u \in users, id \in DOMAIN expenses, a \in {<<>>, <<MaxAmount>>},
       acc \in AccountIdInputs :
        LET r == PutExpenseRead(u, id, a, 0, 0, acc)
        IN (r.pc = "batch" /\ acc # expenses[id].accountId)
           => /\ Len(PutExpenseOperations(r)) = 3
              /\ \A failAt \in 1 .. 3 :
                   LET out == Transaction(Store, PutExpenseOperations(r), failAt)
                   IN /\ ~out.ok
                      /\ out.accounts = accounts
                      /\ out.expenses = expenses
C20_NoPartialMutation ==
    /\ []C20_FailedCrossAccountEdit
    /\ [][\A s \in Slots :
            (Answers(s) /\ reqs'[s].status = 500 /\ reqs'[s].op \in MutatingOps)
            => (accounts' = accounts /\ expenses' = expenses)]_vars
\* An update of a transaction whose owner has two accounts was answered 500.
C20_Witness ==
    \E s \in Slots :
        LET r == reqs[s]
        IN /\ r.op = "putExpense"
           /\ r.status = 500
           /\ r.id \in DOMAIN expenses
           /\ expenses[r.id].userId = r.userId
           /\ Cardinality({a \in DOMAIN accounts : accounts[a].userId = r.userId}) > 1

\* C21: a transfer that passed validation and was answered 500 leaves the
\* persistent state as it was before the request, the set of categories
\* included: the request has created no transfer category.
C21_FailedTransferLeavesNoCategory ==
    [][\A s \in Slots :
         (InFlight(s) /\ Answers(s) /\ reqs[s].op = "transfer" /\ reqs'[s].status = 500)
         => (~reqs[s].wrote /\ UNCHANGED Ledger)]_vars

\* C22: a DELETE /expenses/:id goes on to its write batch after the release
\* of the receipt whatever the release did, a failed release that left the
\* receipt stored included; and every DELETE answered 200 has removed the
\* row and applied the revert delta of the row it read, whether the receipt
\* is still stored or not.
C22_ReceiptFailureDoesNotBlockDelete ==
    [][\A s \in Slots :
         /\ (At(s, "deleteExpense", "receipt") /\ Steps(s))
            => reqs'[s].pc = "batch"
         /\ Succeeds(s, "deleteExpense")
            => LET row == reqs[s].old[1]
               IN /\ reqs[s].id \notin DOMAIN expenses'
                  /\ accounts'[row.accountId].currentBalance
                       = accounts[row.accountId].currentBalance
                         + DeleteRevertVal(row.type, row.amount)]_vars
\* A DELETE was answered 200 and the row is gone while its receipt is still
\* stored: the release had failed.
C22_Witness ==
    \E s \in Slots :
        LET r == reqs[s]
        IN /\ r.op = "deleteExpense"
           /\ r.status = 200
           /\ r.id \notin DOMAIN expenses
           /\ <<r.userId, r.id>> \in receipts

\* C23: no step of a PUT /expenses/:id, whatever its answer, creates or
\* removes a transaction row or changes the type or the owner of a row (the
\* edited one included); only amount, date, category and account of the
\* edited row may differ afterwards.
C23_PutKeepsTypeOwnerAndRows ==
    [][\A s \in Slots :
         (Steps(s) /\ reqs'[s].op = "putExpense")
         => /\ DOMAIN expenses' = DOMAIN expenses
            /\ \A id \in DOMAIN expenses :
                  /\ expenses'[id].type = expenses[id].type
                  /\ expenses'[id].userId = expenses[id].userId
                  /\ id # reqs'[s].id => expenses'[id] = expenses[id]]_vars
\* A PUT was answered 200 and the row carries the amount and the account it
\* asked for.
C23_Witness ==
    \E s \in Slots :
        LET r == reqs[s]
        IN /\ r.op = "putExpense"
           /\ r.status = 200
           /\ r.amount # << >>
           /\ r.accountId # 0
           /\ r.id \in DOMAIN expenses
           /\ expenses[r.id].amount = r.amount[1]
           /\ expenses[r.id].accountId = r.accountId

\* C24: category maintenance is scoped to the owner: in every reachable state
\* GET /categories of a user lists only that user's categories and a PUT
\* /categories/:id by a user leaves every category of another user with its
\* name; and no PUT or DELETE /categories/:id sent by a user renames or
\* removes a category of another user.
C24_ReadAndRenameScoped ==
    \A u \in users :
        /\ \A c \in GetCategories(u) : OwnsCategory(u, c)
        /\ \A id \in DOMAIN categories, name \in CategoryNameInputs :
               ~OwnsCategory(u, id) => PutCategory(u, id, name)[id] = categories[id]
C24_CategoryCrudOwnerScoped ==
    /\ []C24_ReadAndRenameScoped
    /\ [][\A s \in Slots :
            (Steps(s) /\ reqs'[s].op \in {"putCategory", "deleteCategory"})
            => \A c \in DOMAIN categories :
                  ~OwnsCategory(reqs'[s].userId, c)
                  => (c \in DOMAIN categories' /\ categories'[c] = categories[c])]_vars

\* C25: account maintenance is scoped to the owner: in every reachable state
\* GET /accounts of a user lists only that user's accounts and GET
\* /accounts/:id answers 404 for an account the user does not own; a PUT or
\* DELETE /accounts/:id sent by a user who does not own the account is
\* answered 404 and leaves the ledger, that account included, as it was, and
\* a step of such a request that changes an account is one of its owner.
C25_ReadsScoped ==
    \A u \in users :
        /\ \A a \in GetAccounts(u) : OwnsAccount(u, a)
        /\ \A id \in AllAccountIds :
              IF OwnsAccount(u, id)
              THEN GetAccountById(u, id).account = <<accounts[id]>>
              ELSE GetAccountById(u, id).status = 404
C25_AccountCrudOwnerScoped ==
    /\ []C25_ReadsScoped
    /\ [][\A s \in Slots :
            /\ (/\ Starts(s)
                /\ reqs'[s].op \in {"putAccount", "deleteAccount"}
                /\ ~OwnsAccount(reqs'[s].userId, reqs'[s].id))
               => (reqs'[s].pc = "done" /\ reqs'[s].status = 404 /\ UNCHANGED Ledger)
            /\ (/\ Steps(s)
                /\ reqs'[s].op \in {"putAccount", "deleteAccount"}
                /\ accounts' # accounts)
               => OwnsAccount(reqs'[s].userId, reqs'[s].id)]_vars
\* A PUT or DELETE on an existing account of another user was answered 404.
C25_Witness ==
    \E s \in Slots :
        LET r == reqs[s]
        IN /\ r.op \in {"putAccount", "deleteAccount"}
           /\ r.status = 404
           /\ r.id \in DOMAIN accounts
           /\ accounts[r.id].userId # r.userId

\* C26: no step changes the initial balance of an account; a step that
\* changes a current balance is the write batch of a transaction create,
\* update or delete or of a transfer; an account that appears (created by
\* POST /accounts with or without an initial balance, or by a registration)
\* has its current balance equal to its initial balance; so PUT
\* /accounts/:id leaves both balances as they were.
C26_BalancesOnlyMovedByTransactions ==
    [][/\ \A a \in DOMAIN accounts \cap DOMAIN accounts' :
            /\ accounts'[a].initialBalance = accounts[a].initialBalance
            /\ accounts'[a].currentBalance # accounts[a].currentBalance
                 => \E s \in Slots : \E op \in MutatingOps : Commits(s, op)
       /\ \A a \in DOMAIN accounts' \ DOMAIN accounts :
            accounts'[a].currentBalance = accounts'[a].initialBalance]_vars
\* POST /accounts created an account with a non-zero initial balance, a
\* transaction moved its current balance away from it, and a PUT
\* /accounts/:id then renamed that account.
C26_Witness ==
    \E s \in Slots :
        LET r == reqs[s]
        IN /\ r.op = "putAccount"
           /\ r.status = 200
           /\ r.id \in DOMAIN accounts
           /\ accounts[r.id].name \in AccountNameInputs
           /\ accounts[r.id].initialBalance = MaxInitialBalance
           /\ accounts[r.id].currentBalance # accounts[r.id].initialBalance

\* C27: every transaction references an existing account in every reachable
\* state, and an account that a step removes is referenced by no transaction.
C27_EveryTransactionHasItsAccount ==
    \A e \in DOMAIN expenses : expenses[e].accountId \in DOMAIN accounts
C27_AccountDeletedOnlyWhenUnreferenced ==
    /\ []C27_EveryTransactionHasItsAccount
    /\ [][\A a \in DOMAIN accounts \ DOMAIN accounts' :
             \A e \in DOMAIN expenses : expenses[e].accountId # a]_vars
\* An account was deleted while the ledger holds transactions.
C27_Witness ==
    \E s \in Slots :
        LET r == reqs[s]
        IN /\ r.op = "deleteAccount"
           /\ r.status = 200
           /\ r.id \notin DOMAIN accounts
           /\ expenses # << >>

\* C28: every stored transaction has a strictly positive amount, whatever
\* amounts the requests of POST /expenses, PUT /expenses/:id and POST
\* /accounts/transfer carry.
C28_AmountsArePositive ==
    \A e \in DOMAIN expenses : expenses[e].amount > 0

\* The rows of a list.
Rows(list) == {list[i] : i \in DOMAIN list}

\* C29: in every reachable state, for every user, account filter and range,
\* GET /expenses answers 400 when a date is missing or the start is after the
\* end, and otherwise answers exactly the user's transactions whose
\* transaction date is not before the start and falls on the end's day or
\* earlier, restricted to the account when one is given.
QueryDateInputs == {InvalidDate} \cup (0..MaxPeriodDate)
C29_ListIsOwnRowsInRange ==
    \A u \in users, accountId \in {0} \cup AllAccountIds,
       startDate \in QueryDateInputs, endDate \in QueryDateInputs :
        LET g == GetExpenses(u, accountId, startDate, endDate)
        IN IF \/ startDate = 0 \/ endDate = 0
              \/ startDate = InvalidDate \/ endDate = InvalidDate
              \/ startDate > endDate
           THEN g.status = 400 /\ g.expenses = {}
           ELSE /\ g.status = 200
                /\ g.expenses # {}
                /\ \A list \in g.expenses : \A e \in DOMAIN expenses :
                      e \in Rows(list)
                      <=> /\ expenses[e].userId = u
                          /\ startDate <= expenses[e].transactionDate
                          /\ Day(expenses[e].transactionDate) <= Day(endDate)
                          /\ accountId # 0 => expenses[e].accountId = accountId
\* Two users hold transactions; a range ending earlier on the day of a
\* transaction lists it for its owner, and lists no row of the other user.
C29_Witness ==
    \E u \in users, e \in DOMAIN expenses, o \in DOMAIN expenses :
        \E endDate \in QueryDateInputs :
            /\ expenses[e].userId = u
            /\ expenses[o].userId # u
            /\ expenses[e].transactionDate > endDate
            /\ GetExpenses(u, expenses[e].accountId, 1, endDate).expenses = {<<e>>}
\* C30: with the requests executed one after another, a POST
\* /accounts/transfer creates a category only when the acting user had none
\* named as the transfer category, and then exactly one, with that name and
\* owned by that user; it removes no category; a transfer answered 200 has
\* created two rows that both reference one category with that name owned by
\* the acting user.
C30_TransferCategoryCreatedOnce ==
    [][\A s \in Slots :
         (Steps(s) /\ reqs'[s].op = "transfer")
         => LET u == reqs'[s].userId
                before == {c \in DOMAIN categories :
                              /\ categories[c].userId = u
                              /\ categories[c].name = TransferCategoryName}
                after == {c \in DOMAIN categories' :
                              /\ categories'[c].userId = u
                              /\ categories'[c].name = TransferCategoryName}
                created == DOMAIN categories' \ DOMAIN categories
                legs == DOMAIN expenses' \ DOMAIN expenses
            IN /\ DOMAIN categories \subseteq DOMAIN categories'
               /\ created # {}
                    => /\ before = {}
                       /\ Cardinality(created) = 1
                       /\ created \subseteq after
               /\ Succeeds(s, "transfer")
                    => /\ Cardinality(legs) = 2
                       /\ Cardinality(after) = 1
                       /\ \A e \in legs : expenses'[e].categoryId \in after]_vars
\* A transfer was answered 200 and its two rows reference a transfer category
\* that no registration created: the transfer created it.
C30_Witness ==
    \E s \in Slots :
        LET r == reqs[s]
        IN /\ r.op = "transfer"
           /\ r.status = 200
           /\ \E c \in DOMAIN categories :
                /\ c > Len(DefaultCategories) * Cardinality(users)
                /\ categories[c] = [userId |-> r.userId, name |-> TransferCategoryName]
                /\ Cardinality({e \in DOMAIN expenses : expenses[e].categoryId = c}) = 2

\* C31: POST /auth/login answers 200 with a token only when the user exists,
\* is verified and the password matches; in every other case (unknown
\* address, unverified address, wrong password) it answers 400 and issues no
\* token.
C31_LoginIssuesTokenOnlyToVerified ==
    [][\A s \in Slots :
         (Answers(s) /\ reqs'[s].op = "login")
         => LET r == reqs'[s]
            IN /\ r.status = 200
                    => /\ r.id \in users
                       /\ userTable[r.id].isVerified
                       /\ Compare(r.password, userTable[r.id].password)
                       /\ r.token # << >>
               /\ r.status # 200 => (r.status = 400 /\ r.token = << >>)
               /\ (r.id \notin users \/ ~userTable[r.id].isVerified)
                    => r.status = 400]_vars

\* C32: a DELETE /expenses/:id batch that commits removes a row that was
\* there and changes its account's cached balance by -signedAmount(type,
\* amount); a batch that fails changes no balance; and of two finished
\* DELETE requests for the same transaction at most one was answered 200.
C32_OneDeleteAnswered ==
    (/\ \A s \in Slots : reqs[s].pc = "done" /\ reqs[s].op = "deleteExpense"
     /\ \A s, t \in Slots : reqs[s].id = reqs[t].id)
    => \E s \in Slots : reqs[s].status # 200
C32_RevertAppliedExactlyOnce ==
    /\ []C32_OneDeleteAnswered
    /\ [][\A s \in Slots :
            Commits(s, "deleteExpense")
            => IF reqs'[s].status = 200
               THEN LET row == reqs[s].old[1]
                    IN /\ reqs[s].id \in DOMAIN expenses
                       /\ reqs[s].id \notin DOMAIN expenses'
                       /\ \A a \in DOMAIN accounts :
                            accounts'[a].currentBalance
                              = accounts[a].currentBalance
                                - (IF a = row.accountId
                                   THEN SignedAmount(row.type, row.amount) ELSE 0)
               ELSE UNCHANGED <<accounts, expenses>>]_vars

\* C33: every create, update, delete and transfer request in flight
\* eventually finishes; a finished request never changes its answer; the
\* step that answers with an error changes no table of the ledger, and a
\* request that has written (the transfer that created its category, the
\* delete that released the receipt) is never answered with an error
\* afterwards: a request ends with all of its writes committed and a 200, or
\* with none and an error.
C33_EventuallyAnswered ==
    \A s \in Slots : InFlight(s) ~> (reqs[s].pc = "done")
C33_AnsweredOnce ==
    [][\A s \in Slots : reqs[s].pc = "done" => reqs'[s] = reqs[s]]_vars
C33_ErrorStepWritesNothing ==
    [][\A s \in Slots :
          (InFlight(s) /\ reqs'[s].pc = "done" /\ reqs'[s].status # 200)
          => UNCHANGED <<accounts, categories, expenses, nextId>>]_vars
C33_NoErrorAfterWrite ==
    [][\A s \in Slots :
          (InFlight(s) /\ reqs'[s].pc = "done" /\ reqs'[s].status # 200)
          => ~reqs[s].wrote]_vars
C33_CommitOrFail ==
    /\ C33_EventuallyAnswered
    /\ C33_AnsweredOnce
    /\ C33_ErrorStepWritesNothing
    /\ C33_NoErrorAfterWrite

\* C34: in every reachable state the account and the category of every
\* transaction exist and belong to the user who owns the transaction.
C34_ReferencesBelongToOwner ==
    \A e \in DOMAIN expenses :
        /\ OwnsAccount(expenses[e].userId, expenses[e].accountId)
        /\ OwnsCategory(expenses[e].userId, expenses[e].categoryId)
\* Two users are registered and a transfer of one of them was answered 200:
\* its two rows are in the ledger.
C34_Witness ==
    \E s \in Slots :
        LET r == reqs[s]
        IN /\ r.op = "transfer"
           /\ r.status = 200
           /\ Cardinality(users) = 2
           /\ Cardinality({e \in DOMAIN expenses : expenses[e].userId = r.userId}) >= 2

\* C35: no step of a create, update, delete or transfer request of a user,
\* whatever its answer, changes an account of another user (its cached
\* balance included) or the transactions posted on it; so the other users'
\* accounts and transactions are what they would be without the request.
C35_OtherUsersUntouched ==
    [][\A s \in Slots :
         (Steps(s) /\ reqs'[s].op \in MutatingOps)
         => \A a \in DOMAIN accounts :
               accounts[a].userId # reqs'[s].userId
               => /\ a \in DOMAIN accounts'
                  /\ accounts'[a] = accounts[a]
                  /\ {e \in DOMAIN expenses' : expenses'[e].accountId = a}
                       = {e \in DOMAIN expenses : expenses[e].accountId = a}
                  /\ \A e \in DOMAIN expenses :
                        expenses[e].accountId = a => expenses'[e] = expenses[e]]_vars
\* A user's request was answered 200, or 403 for naming a transaction of
\* another user, while another user holds a transaction on an account.
C35_Witness ==
    \E s \in Slots :
        LET r == reqs[s]
        IN /\ r.op \in MutatingOps
           /\ r.status \in {200, 403}
           /\ \E e \in DOMAIN expenses :
                /\ expenses[e].userId # r.userId
                /\ accounts[expenses[e].accountId].userId # r.userId
                /\ r.status = 403 => r.id = e

\* C36: when two concurrent transfers of a user have both been answered 200,
\* however their find-category and create-category steps interleaved, the
\* user has exactly one category named as the transfer category and every
\* transfer leg references it.
C36_OneTransferCategoryAfterRace ==
    (\A s \in Slots : /\ reqs[s].op = "transfer"
                      /\ reqs[s].pc = "done"
                      /\ reqs[s].status = 200
                      /\ reqs[s].userId = 1)
    => /\ Cardinality(TransferCategoryFound(1) \ {0}) = 1
       /\ \A e \in DOMAIN expenses :
             expenses[e].type \in {"TRANSFER_IN", "TRANSFER_OUT"}
             => expenses[e].categoryId \in TransferCategoryFound(1)

\* C37: a DELETE /expenses/:id that removes the receipt of a transaction from
\* the object store has removed the transaction row when it has finished: no
\* request releases the receipt of a row that stays in the ledger.
C37_ReceiptReleasedOnlyWithRow ==
    [][\A s \in Slots :
         (InFlight(s) /\ Answers(s) /\ reqs[s].op = "deleteExpense" /\ reqs[s].wrote)
         => reqs[s].id \notin DOMAIN expenses']_vars

\* C38: in every reachable state every TRANSFER_OUT row has a TRANSFER_IN
\* row of the same user with the same amount and date on another account,
\* and every TRANSFER_IN row has such a TRANSFER_OUT row.
C38_Opposite(type) == IF type = "TRANSFER_OUT" THEN "TRANSFER_IN" ELSE "TRANSFER_OUT"
C38_TransferLegsPaired ==
    \A e \in DOMAIN expenses :
        expenses[e].type \in {"TRANSFER_IN", "TRANSFER_OUT"}
        => \E o \in DOMAIN expenses :
              /\ expenses[o].type = C38_Opposite(expenses[e].type)
              /\ expenses[o].userId = expenses[e].userId
              /\ expenses[o].amount = expenses[e].amount
              /\ expenses[o].transactionDate = expenses[e].transactionDate
              /\ expenses[o].accountId # expenses[e].accountId

\* C39: for an account of the user and a range given as calendar days (the
\* first instants of two days), a transaction of the account dated during the
\* end day, after its first instant, is among the rows GET
\* /accounts/balance/:id folds if and only if it is among the rows POST
\* /accounts/balances aggregates into periodNet, and if and only if GET
\* /expenses lists it.
CalendarDayInputs == {t \in PeriodDateInputs : t % TicksPerDay = 0}
C39_EndDayTreatedAlike ==
    \A a \in DOMAIN accounts, startDate \in CalendarDayInputs, endDate \in CalendarDayInputs :
        \A e \in DOMAIN expenses :
            (/\ startDate <= endDate
             /\ expenses[e].accountId = a
             /\ Day(expenses[e].transactionDate) = Day(endDate)
             /\ expenses[e].transactionDate > endDate)
            => LET inBalance == e \in ExpensesBetween(a, startDate, endDate)
                   inPeriodNet == e \in PeriodRows(1, {a}, startDate, EndOfDay(endDate))
                   inList == \E list \in GetExpenses(1, a, startDate, endDate).expenses :
                                e \in Rows(list)
               IN (inBalance <=> inPeriodNet) /\ (inPeriodNet <=> inList)

====
